---- MODULE Spec2Model ----
(***************************************************************************)
(* A model of simbids.utils.bids: generate_bids_skeleton (the skeleton     *)
(* materializer), combine_entities (the entity formatter) and to_json.     *)
(*                                                                         *)
(* Python strings are sequences of one-character strings, so that          *)
(* startswith, concatenation and str.replace are computed as Python        *)
(* computes them.  Python dicts and lists live in a heap of objects        *)
(* addressed by references, so that aliasing, deepcopy, list.copy and the  *)
(* in-place pop/update of the code are what they are in Python.  The       *)
(* filesystem is a set of directories and a map from file paths to text.   *)
(***************************************************************************)
EXTENDS Integers, Sequences, FiniteSets, TLC

(***************************************************************************)
(* Bounds of the model.                                                    *)
(***************************************************************************)
\* number of generate_bids_skeleton calls the caller makes in one behaviour
MaxCalls == 2
\* number of subjects of a skeleton given in full, and of the wildcard
\* subjects that follow a subject
MaxSubjects == 2

(***************************************************************************)
(* String literals of the source.                                          *)
(***************************************************************************)
SubPrefix == <<"s", "u", "b", "-">>
SesPrefix == <<"s", "e", "s", "-">>
NiiGz == <<".", "n", "i", "i", ".", "g", "z">>
DotJson == <<".", "j", "s", "o", "n">>
KeyDatasetDescription ==
    <<"d", "a", "t", "a", "s", "e", "t", "_", "d", "e", "s", "c", "r", "i", "p", "t", "i", "o", "n">>
DescFileName == KeyDatasetDescription \o DotJson
KeySession == <<"s", "e", "s", "s", "i", "o", "n">>
KeyMetadata == <<"m", "e", "t", "a", "d", "a", "t", "a">>
KeyExtension == <<"e", "x", "t", "e", "n", "s", "i", "o", "n">>
KeySuffix == <<"s", "u", "f", "f", "i", "x">>
Star == <<"*">>

(***************************************************************************)
(* Python values.  A scalar is None, a str or an int; a container value is *)
(* a reference into the heap.  A "tree" is a value written out in full:    *)
(* dicts as ordered sequences of <<key, tree>> items, lists as sequences   *)
(* of trees.                                                               *)
(***************************************************************************)
None == [t |-> "none"]
PyStr(s) == [t |-> "str", s |-> s]
PyInt(n) == [t |-> "int", n |-> n]
Ref(r) == [t |-> "ref", r |-> r]
PyBool(b) == [t |-> "bool", b |-> b]
Dict(items) == [t |-> "dict", items |-> items]
List(elems) == [t |-> "list", elems |-> elems]

IsStr(v) == v.t = "str"
\* bool(v), as an if statement takes a str or a bool
Truthy(v) == IF v.t = "bool" THEN v.b ELSE IF v.t = "str" THEN v.s # <<>> ELSE v.t # "none"
IsRef(v) == v.t = "ref"

(***************************************************************************)
(* str operations.                                                         *)
(***************************************************************************)
\* a function on 1..n as the sequence of its values, computed once
AsSeq(f) == f \o <<>>

StartsWith(s, p) == Len(s) >= Len(p) /\ SubSeq(s, 1, Len(p)) = p

EndsWith(s, p) == Len(s) >= Len(p) /\ SubSeq(s, Len(s) - Len(p) + 1, Len(s)) = p

RECURSIVE Join(_, _)
Join(sep, parts) ==
    IF parts = <<>> THEN <<>>
    ELSE IF Len(parts) = 1 THEN parts[1]
    ELSE parts[1] \o sep \o Join(sep, Tail(parts))

\* str.replace(old, new): every non-overlapping occurrence, left to right;
\* an empty old matches before every character and at the end.
RECURSIVE ReplaceFrom(_, _, _)
ReplaceFrom(s, old, new) ==
    IF s = <<>> THEN <<>>
    ELSE IF StartsWith(s, old)
         THEN new \o ReplaceFrom(SubSeq(s, Len(old) + 1, Len(s)), old, new)
         ELSE <<s[1]>> \o ReplaceFrom(Tail(s), old, new)

RECURSIVE Intersperse(_, _)
Intersperse(s, new) ==
    IF s = <<>> THEN new ELSE new \o <<s[1]>> \o Intersperse(Tail(s), new)

Replace(s, old, new) ==
    IF old = <<>> THEN Intersperse(s, new) ELSE ReplaceFrom(s, old, new)

Digit(d) == <<"0", "1", "2", "3", "4", "5", "6", "7", "8", "9">>[d + 1]

RECURSIVE IntToStr(_)
IntToStr(n) == IF n < 10 THEN <<Digit(n)>> ELSE IntToStr(n \div 10) \o <<Digit(n % 10)>>

\* str(v) of a scalar, as an f-string renders it
Str(v) ==
    IF v.t = "str" THEN v.s
    ELSE IF v.t = "int" THEN IntToStr(v.n)
    ELSE <<"N", "o", "n", "e">>

(***************************************************************************)
(* combine_entities: entities is the keyword dict, a sequence of           *)
(* <<label, value>> items in insertion order.                              *)
(***************************************************************************)
\* the pairs joined without the leading underscore
combine_entities_joined(entities) ==
    Join(<<"_">>, AsSeq([i \in 1..Len(entities) |->
                            entities[i][1] \o <<"-">> \o Str(entities[i][2])]))

combine_entities(entities) ==
    IF entities # <<>>
    THEN <<"_">> \o Join(<<"_">>, AsSeq([i \in 1..Len(entities) |->
                                      entities[i][1] \o <<"-">> \o Str(entities[i][2])]))
    ELSE <<>>

(***************************************************************************)
(* The heap: a sequence of objects, a reference being an index.            *)
(***************************************************************************)
DictObj(ks, vs) == [t |-> "dict", ks |-> ks, vs |-> vs]
ListObj(vs) == [t |-> "list", ks |-> <<>>, vs |-> vs]

\* the containers of a tree are allocated children first, left to right,
\* each container after its children
IsContainer(tree) == tree.t \in {"dict", "list"}
Kids(tree) ==
    IF tree.t = "dict" THEN AsSeq([i \in 1..Len(tree.items) |-> tree.items[i][2]])
    ELSE IF tree.t = "list" THEN tree.elems
    ELSE <<>>

RECURSIVE SumSeq(_)
SumSeq(ns) == IF ns = <<>> THEN 0 ELSE ns[1] + SumSeq(Tail(ns))

RECURSIVE Concat(_)
Concat(seqs) == IF seqs = <<>> THEN <<>> ELSE seqs[1] \o Concat(Tail(seqs))

\* number of containers of a tree
RECURSIVE Size(_)
Size(tree) ==
    IF IsContainer(tree)
    THEN 1 + SumSeq(AsSeq([i \in 1..Len(Kids(tree)) |-> Size(Kids(tree)[i])]))
    ELSE 0

\* the value of a tree allocated on a heap of length base
ValueAt(tree, base) == IF IsContainer(tree) THEN Ref(base + Size(tree)) ELSE tree

\* the objects of a tree allocated on a heap of length base
RECURSIVE Objects(_, _)
Objects(tree, base) ==
    IF ~IsContainer(tree) THEN <<>>
    ELSE LET kids == Kids(tree)
             sizes == AsSeq([i \in 1..Len(kids) |-> Size(kids[i])])
             at == AsSeq([i \in 1..Len(kids) |-> base + SumSeq(SubSeq(sizes, 1, i - 1))])
             vs == AsSeq([i \in 1..Len(kids) |-> ValueAt(kids[i], at[i])])
         IN Concat(AsSeq([i \in 1..Len(kids) |-> Objects(kids[i], at[i])]))
            \o <<IF tree.t = "dict"
                 THEN DictObj(AsSeq([i \in 1..Len(kids) |-> tree.items[i][1]]), vs)
                 ELSE ListObj(vs)>>

\* allocate a tree: result [h |-> heap, v |-> value]
Alloc(h, tree) == [h |-> h \o Objects(tree, Len(h)), v |-> ValueAt(tree, Len(h))]

\* the tree a value stands for
RECURSIVE Deref(_, _)
Deref(h, v) ==
    IF v.t = "ref"
    THEN LET o == h[v.r]
         IN IF o.t = "dict"
            THEN Dict(AsSeq([i \in 1..Len(o.ks) |-> <<o.ks[i], Deref(h, o.vs[i])>>]))
            ELSE List(AsSeq([i \in 1..Len(o.vs) |-> Deref(h, o.vs[i])]))
    ELSE v

\* an assignment in place of a copy: the same objects under another name
deepcopy_shared(h, v) == [h |-> h, v |-> v]

\* copy.deepcopy(v): fresh objects for every container reachable from v.
\* (No object of a skeleton is reachable along two paths, so the memo of
\* deepcopy never hits and the copy is the allocation of v's tree.)
deepcopy(h, v) == Alloc(h, Deref(h, v))

\* dict operations, on a dict object
KeyIndex(o, k) == IF \E i \in 1..Len(o.ks) : o.ks[i] = k
                  THEN CHOOSE i \in 1..Len(o.ks) : o.ks[i] = k
                  ELSE 0
HasKey(o, k) == KeyIndex(o, k) # 0
DictGet(o, k, default) == IF HasKey(o, k) THEN o.vs[KeyIndex(o, k)] ELSE default
RemoveAt(s, i) == SubSeq(s, 1, i - 1) \o SubSeq(s, i + 1, Len(s))
\* the dict after d.pop(k, ...)
DictWithout(o, k) ==
    IF HasKey(o, k)
    THEN DictObj(RemoveAt(o.ks, KeyIndex(o, k)), RemoveAt(o.vs, KeyIndex(o, k)))
    ELSE o
\* the dict after d.setdefault(k, v): the value of a key it has is kept
DictSetDefault(o, k, v) == IF HasKey(o, k) THEN o ELSE DictObj(Append(o.ks, k), Append(o.vs, v))
\* the dict after d.update({k: v}): in place if k is a key, appended otherwise
DictWith(o, k, v) ==
    IF HasKey(o, k)
    THEN DictObj(o.ks, [o.vs EXCEPT ![KeyIndex(o, k)] = v])
    ELSE DictObj(Append(o.ks, k), Append(o.vs, v))
\* the items of a dict from the last inserted to the first
ItemsReversed(o) == AsSeq([i \in 1..Len(o.ks) |-> <<o.ks[Len(o.ks) + 1 - i], o.vs[Len(o.ks) + 1 - i]>>])
\* list(d.items())
Items(o) == AsSeq([i \in 1..Len(o.ks) |-> <<o.ks[i], o.vs[i]>>])

(***************************************************************************)
(* json.dumps(data), default separators, no indent.                        *)
(***************************************************************************)
Quoted(s) == <<"\"">> \o s \o <<"\"">>

RECURSIVE JsonDumps(_)
JsonDumps(tree) ==
    IF tree.t = "none" THEN <<"n", "u", "l", "l">>
    ELSE IF tree.t = "str" THEN Quoted(tree.s)
    ELSE IF tree.t = "int" THEN IntToStr(tree.n)
    ELSE IF tree.t = "dict"
    THEN <<"{">> \o Join(<<",", " ">>, AsSeq([i \in 1..Len(tree.items) |->
                Quoted(tree.items[i][1]) \o <<":", " ">> \o JsonDumps(tree.items[i][2])]))
         \o <<"}">>
    ELSE <<"[">> \o Join(<<",", " ">>, AsSeq([i \in 1..Len(tree.elems) |-> JsonDumps(tree.elems[i])]))
         \o <<"]">>

(***************************************************************************)
(* Path operations.  A path is the sequence of its components from the     *)
(* filesystem root; mkdir, touch and write_text act on the pair of the     *)
(* set of directories and the map from file paths to their text.           *)
(***************************************************************************)
Prefixes(p) == {SubSeq(p, 1, n) : n \in 1..Len(p)}
Exists(ds, fl, p) == p \in ds \/ p \in DOMAIN fl
\* Path.mkdir(parents=True, exist_ok=True) never fails on an existing path
mkdir_parents_exist_ok_fails(ds, fl, p) == FALSE
\* a mkdir that fails only when the path is a file
mkdir_parents_fails_on_file(ds, fl, p) == p \in DOMAIN fl
\* Path.mkdir(parents=True) fails when the path exists
mkdir_parents_fails(ds, fl, p) == Exists(ds, fl, p)
mkdir_parents(ds, p) == ds \cup Prefixes(p)
\* Path.mkdir(exist_ok=True) fails when the path exists and is no directory
mkdir_exist_ok_fails(ds, fl, p) == p \in DOMAIN fl
mkdir_exist_ok(ds, p) == ds \cup {p}
\* Path.touch(): an existing file keeps its text
touch(fl, p) == IF p \in DOMAIN fl THEN fl ELSE (p :> <<>>) @@ fl
\* Path.write_text(text): creates or overwrites
write_text(fl, p, text) == (p :> text) @@ fl

(***************************************************************************)
(* Decoding of a configuration text.  json.loads and yaml.safe_load are    *)
(* the inverses of the encodings below on the documents of the model, and  *)
(* fail on any other text; a JSON document is also a YAML (flow) document. *)
(***************************************************************************)
ConfigTree ==
    Dict(<< <<<<"0", "1">>, Dict(<< <<<<"a", "n", "a", "t">>, Dict(<< <<KeySuffix, PyStr(<<"T", "1", "w">>)>> >>)>> >>)>> >>)
\* the block-style YAML text of ConfigTree
YamlText ==
    <<"'", "0", "1", "'", ":">> \o <<"\n", " ", " ">> \o <<"a", "n", "a", "t", ":">> \o <<"\n", " ", " ", " ", " ">>
    \o <<"s", "u", "f", "f", "i", "x", ":", " ", "T", "1", "w">> \o <<"\n">>
\* a text that is neither JSON nor YAML
BadText == <<"{">>

(***************************************************************************)
(* The inputs.                                                             *)
(***************************************************************************)
\* configuration files of the filesystem, a name that is no file, and two
\* strs that are no file names but texts: the JSON text of ConfigTree and
\* the text that does not decode
CfgJson == <<"c", ".", "j", "s", "o", "n">>
CfgYaml == <<"c", ".", "y", "a", "m", "l">>
CfgBad == <<"b", "a", "d">>
CfgMissing == <<"n", "o", "n", "e">>
CfgInline == JsonDumps(ConfigTree)
\* a name only the package's data directory has
CfgBundled == <<"m", ".", "y", "a", "m", "l">>
ConfigNames == {CfgJson, CfgYaml, CfgBad, CfgMissing, CfgInline, BadText, CfgBundled}
\* targets: one directly under the working directory, one whose parent is
\* missing, and one that is a file
Targets == {<<<<"o", "u", "t">>>>, <<<<"t", "m", "p">>, <<"n", "e", "w">>>>, <<CfgBad>>}
InitialFiles ==
    (<<CfgJson>> :> JsonDumps(ConfigTree)) @@ (<<CfgYaml>> :> YamlText) @@ (<<CfgBad>> :> BadText)

\* identifiers, modalities, suffixes, extensions and entity labels
Id01 == <<"0", "1">>
Id02 == <<"0", "2">>
Id03 == <<"0", "3">>
Id04 == <<"0", "4">>
Anat == <<"a", "n", "a", "t">>
Dwi == <<"d", "w", "i">>
Func == <<"f", "u", "n", "c">>
T1w == <<"T", "1", "w">>
T2w == <<"T", "2", "w">>
Bold == <<"b", "o", "l", "d">>
Bval == <<".", "b", "v", "a", "l">>
Acq == <<"a", "c", "q">>
Run == <<"r", "u", "n">>
MetaA == Dict(<< <<<<"T", "R">>, PyInt(2)>> >>)
MetaB == Dict(<< <<<<"T", "a", "s", "k">>, PyStr(<<"r", "e", "s", "t">>)>>, <<<<"E", "c", "h", "o">>, List(<<PyInt(1), None>>)>> >>)

\* file-entries
EntryPlain == Dict(<< <<KeySuffix, PyStr(T1w)>> >>)
EntryMeta == Dict(<< <<KeySuffix, PyStr(T1w)>>, <<KeyMetadata, MetaA>> >>)
EntryDwi ==
    Dict(<< <<Acq, PyStr(<<"x">>)>>, <<KeyMetadata, MetaB>>, <<Run, PyInt(1)>>,
            <<KeySuffix, PyStr(Dwi)>> >>)
EntryBval ==
    Dict(<< <<KeySuffix, PyStr(Dwi)>>, <<Acq, PyStr(<<"x">>)>>, <<KeyExtension, PyStr(Bval)>>,
            <<Run, PyInt(1)>> >>)
EntryJson ==
    Dict(<< <<KeyExtension, PyStr(DotJson)>>, <<KeySuffix, PyStr(Bold)>>, <<KeyMetadata, MetaA>> >>)
\* an entry whose extension occurs in an entity value too
EntryTwice ==
    Dict(<< <<Acq, PyStr(<<"x", ".", "b">>)>>, <<KeyExtension, PyStr(<<".", "b">>)>>,
            <<KeySuffix, PyStr(T1w)>>, <<KeyMetadata, MetaB>> >>)
EntryNoSuffix == Dict(<< <<Acq, PyStr(<<"x">>)>>, <<KeyMetadata, MetaA>> >>)
EntryMetaB == Dict(<< <<KeyMetadata, MetaB>>, <<KeySuffix, PyStr(T1w)>> >>)
EntryLate == Dict(<< <<KeySuffix, PyStr(T2w)>>, <<KeyMetadata, MetaB>> >>)

\* subject values: single mappings, session lists and the wildcard
SubjectPlain == Dict(<< <<Anat, EntryPlain>> >>)
SubjectMeta == Dict(<< <<Anat, EntryMeta>> >>)
SubjectDwi == Dict(<< <<Dwi, List(<<EntryDwi, EntryBval>>)>>, <<Anat, List(<<>>)>> >>)
SubjectSessions ==
    List(<< Dict(<< <<KeySession, PyStr(Id01)>>, <<Anat, EntryMeta>> >>),
            Dict(<< <<Func, EntryJson>>, <<KeySession, PyStr(SesPrefix \o Id02)>> >>) >>)
SubjectNoSession ==
    List(<< Dict(<< <<Anat, EntryPlain>> >>),
            Dict(<< <<KeySession, None>>, <<Anat, List(<<EntryMeta, EntryBval>>)>> >>) >>)
SubjectBroken == Dict(<< <<Anat, List(<<EntryPlain, EntryNoSuffix, EntryLate>>)>> >>)
SubjectKeyed == Dict(<< <<KeySession, PyStr(Id01)>>, <<Anat, EntryMetaB>> >>)
\* two sessions of one name, given without and with its prefix
SubjectTwice ==
    List(<< Dict(<< <<KeySession, PyStr(Id01)>>, <<Anat, EntryPlain>> >>),
            Dict(<< <<KeySession, PyStr(SesPrefix \o Id01)>>, <<Func, List(<<EntryJson, EntryTwice>>)>> >>) >>)
SubjectValues ==
    {SubjectPlain, SubjectMeta, SubjectDwi, SubjectSessions, SubjectNoSession, SubjectBroken,
     SubjectKeyed, SubjectTwice, PyStr(Star)}

\* the top-level shapes: the subject keys in order, and the dataset_description
\* item: none, a mapping or null
Description == Dict(<< <<<<"N", "a", "m", "e">>, PyStr(<<"S", "i", "m">>)>> >>)
SubjectKeys ==
    {[dd |-> <<>>, keys |-> <<Id01, SubPrefix \o Id02, Id03, Id04>>],
     [dd |-> <<Description>>, keys |-> <<SubPrefix \o Id01, Id01, Id02, Id03>>],
     [dd |-> <<None>>, keys |-> <<Id01, SubPrefix \o Id02, Id03, Id04>>]}
Skeleton(shape, values) ==
    Dict(AsSeq([i \in 1..Len(shape.dd) |-> <<KeyDatasetDescription, shape.dd[i]>>])
         \o AsSeq([i \in 1..Len(values) |-> <<shape.keys[i], values[i]>>]))
\* a subject followed by wildcard subjects
Chains ==
    {<<v>> \o AsSeq([i \in 1..k |-> PyStr(Star)]) : v \in SubjectValues, k \in 1..MaxSubjects}
\* two different subjects followed by a wildcard subject
Adjacent ==
    {<<SubjectPlain, SubjectSessions, PyStr(Star)>>, <<SubjectSessions, SubjectDwi, PyStr(Star)>>}
Skeletons ==
    {Skeleton(shape, values) :
        shape \in SubjectKeys,
        values \in Chains \cup Adjacent \cup UNION {[1..n -> SubjectValues] : n \in 1..MaxSubjects}}

\* what the caller passes: a mapping, or a str
Arguments == Skeletons \cup {PyStr(name) : name \in ConfigNames}

\* the configuration bundled with the package: a session list with a
\* sidecar, a file that is no .nii.gz, and a wildcard subject
BundledTree ==
    Dict(<< <<Id01, List(<< Dict(<< <<KeySession, PyStr(Id01)>>, <<Anat, EntryMeta>>,
                                  <<Dwi, List(<<EntryDwi, EntryBval>>)>> >>) >>)>>,
            <<Id02, PyStr(Star)>> >>)
\* the files of the package's simbids.data.bids_mri, by name: one has the
\* name of a file of the working directory, one has not
BundledFiles == (CfgYaml :> JsonDumps(BundledTree)) @@ (CfgBundled :> JsonDumps(BundledTree))

\* json.loads and yaml.safe_load on the texts of the model: the texts they
\* decode, each with the tree it decodes to
JsonDocs == {<<JsonDumps(ConfigTree), ConfigTree>>, <<JsonDumps(BundledTree), BundledTree>>}
YamlDocs == JsonDocs \cup {<<YamlText, ConfigTree>>}
Decodes(docs, text) == \E d \in docs : d[1] = text
Decoded(docs, text) == (CHOOSE d \in docs : d[1] = text)[2]

\* simulate_dataset's output directory, and what the caller passes after
\* yaml_file: nothing, or a third positional argument, and nothing or
\* fill_files by keyword
OutputDirs == {<<<<"d", "a", "t", "a">>>>}
Absent == [t |-> "absent"]
ZipNone == <<"n", "o", "n", "e">>
ZipSubject == <<"s", "u", "b", "j", "e", "c", "t">>
ZipSession == <<"s", "e", "s", "s", "i", "o", "n">>
ZipInvalid == <<"i", "n", "v", "a", "l", "i", "d", "_", "l", "e", "v", "e", "l">>
ThirdArguments == {Absent, PyStr(ZipNone), PyStr(ZipSubject), PyStr(ZipSession), PyStr(ZipInvalid)}
KeywordArguments == {Absent, PyBool(FALSE), PyBool(TRUE)}
\* os.urandom: the block of bytes a call gets
RandomBlocks == {"r1", "r2"}

VARIABLES
    heap,       \* the Python heap
    bids_config,\* the caller's argument: a reference to its dict, or a str
    original,   \* the tree of the caller's argument before the first call
    dirs,       \* directories of the filesystem
    files,      \* regular files of the filesystem: path -> text
    frame,      \* the locals of the running generate_bids_skeleton call
    outcome,    \* how the last call ended
    calls,      \* number of calls made
    trace,      \* the filesystem operations of the running call, in order
    formatted,  \* the last combine_entities application: its argument and result
    sim,        \* the locals of the last simulate_dataset call, and how it ended
    util        \* the locals of a collect_derivatives or update_dict call, and how it ended

vars == <<heap, bids_config, original, dirs, files, frame, outcome, calls, trace, formatted, sim, util>>

NoFrame ==
    [pc |-> "idle", target_path |-> <<>>, bids_dict |-> None, _bids_dict |-> None, root |-> <<>>,
     cached_subject_data |-> None, subject |-> 0, bids_subject |-> <<>>, subj_path |-> <<>>,
     sessions |-> None, session |-> 0, bids_prefix |-> <<>>, curr_path |-> <<>>,
     modality |-> 0, modality_path |-> <<>>, files |-> None, bids_file |-> 0]

NoOutcome == [kind |-> "none", exc |-> "", value |-> None]
Returned(v) == [kind |-> "returned", exc |-> "", value |-> v]
Raised(exc) == [kind |-> "raised", exc |-> exc, value |-> None]

\* third and kw are what the caller passed, fill_files is the parameter
NoSim ==
    [pc |-> "idle", output_dir |-> <<>>, yaml_file |-> <<>>, third |-> Absent, kw |-> Absent,
     fill_files |-> PyBool(FALSE), datalad_init |-> FALSE, dataset_dir |-> <<>>, datalad |-> <<>>,
     exc |-> "", value |-> <<>>]

\* no call of collect_derivatives or update_dict
NoUtil ==
    [op |-> "none", pc |-> "idle", derivatives_dataset |-> None, raw_dataset |-> None,
     session |-> "", allow_multiple |-> FALSE, loop |-> "", k |-> 0, derivs_cache |-> <<>>,
     orig_dict |-> None, new_dict |-> None, updated_dict |-> None, before |-> None, exc |-> ""]

Init ==
    /\ util = NoUtil
    /\ sim = NoSim
    /\ \E tree \in Arguments :
          LET a == Alloc(<<>>, tree)
          IN heap = a.h /\ bids_config = a.v /\ original = tree
    /\ dirs = {}
    /\ files = InitialFiles
    /\ frame = NoFrame
    /\ outcome = NoOutcome
    /\ calls = 0
    /\ trace = <<>>
    /\ formatted = [entities |-> <<>>, result |-> <<>>]

(***************************************************************************)
(* generate_bids_skeleton(target_path, bids_config), in steps: the call up *)
(* to the subject loop, then one step per iteration of each loop.  The     *)
(* frame's subject, session, modality and bids_file are the positions of   *)
(* the four loops in the sequences they iterate.                           *)
(***************************************************************************)
Upd(h, r, obj) == [h EXCEPT ![r] = obj]
IsDict(h, v) == v.t = "ref" /\ h[v.r].t = "dict"
IsList(h, v) == v.t = "ref" /\ h[v.r].t = "list"
Op(op, path, text) == [op |-> op, path |-> path, text |-> text, subject |-> frame.subject]
Raise(exc) == /\ frame' = [frame EXCEPT !.pc = "raised"]
              /\ outcome' = Raised(exc)

\* a default description that names the version by its first two numbers
DefaultDescriptionShortVersion ==
    Dict(<< <<<<"N", "a", "m", "e">>, PyStr(<<"D", "e", "f", "a", "u", "l", "t">>)>>,
            <<<<"B", "I", "D", "S", "V", "e", "r", "s", "i", "o", "n">>, PyStr(<<"1", ".", "6">>)>> >>)

DefaultDescription ==
    Dict(<< <<<<"N", "a", "m", "e">>, PyStr(<<"D", "e", "f", "a", "u", "l", "t">>)>>,
            <<<<"B", "I", "D", "S", "V", "e", "r", "s", "i", "o", "n">>, PyStr(<<"1", ".", "6", ".", "0">>)>> >>)

\* to_json(filename, data): the text written
to_json(h, data) == JsonDumps(Deref(h, data))

\* the str taken as the text to decode
ReadTextInline(fl, name) == [exc |-> "", text |-> name]

\* line 342: Path(bids_config).read_text()
ReadText(fl, name) ==
    IF <<name>> \notin DOMAIN fl
    THEN [exc |-> "FileNotFoundError", text |-> <<>>]
    ELSE [exc |-> "", text |-> fl[<<name>>]]

\* a dict taken as it is, without the copy of line 340
LoadConfigInPlace(h, fl, cfg) ==
    [exc |-> IF IsRef(cfg) THEN "" ELSE "UnboundLocalError", h |-> h, v |-> cfg]

\* lines 338-346: bids_dict, or the exception raised
LoadConfig(h, fl, cfg) ==
    IF IsDict(h, cfg)
    THEN LET c == deepcopy(h, cfg) IN [exc |-> "", h |-> c.h, v |-> c.v]
    ELSE IF IsStr(cfg)
    THEN IF ReadText(fl, cfg.s).exc # ""
         THEN [exc |-> ReadText(fl, cfg.s).exc, h |-> h, v |-> None]
         ELSE LET text == ReadText(fl, cfg.s).text
              IN IF Decodes(JsonDocs, text)
                 THEN LET a == Alloc(h, Decoded(JsonDocs, text))
                      IN [exc |-> "", h |-> a.h, v |-> a.v]
                 ELSE IF Decodes(YamlDocs, text)
                 THEN LET a == Alloc(h, Decoded(YamlDocs, text))
                      IN [exc |-> "", h |-> a.h, v |-> a.v]
                 ELSE [exc |-> "YAMLError", h |-> h, v |-> None]
    ELSE [exc |-> "UnboundLocalError", h |-> h, v |-> None]

\* lines 338-358: generate_bids_skeleton(target_path, cfg) up to the loop
\* over the subjects, on the heap h, the directories ds and the files fl:
\* what the call makes of them, its locals, how it has ended if it has,
\* and its filesystem operations
\* an exception raised before the call has any local but its arguments
RaiseEarly(h, ds, fl, target_path, exc) ==
    [heap |-> h, dirs |-> ds, files |-> fl,
     frame |-> [NoFrame EXCEPT !.pc = "raised", !.target_path = target_path],
     outcome |-> Raised(exc), trace |-> <<>>]
\* lines 352-358: the description is popped from the working copy and
\* written, with the default for a missing or null one
EnterDescribed(loaded, c, desc, ds, fl, root) ==
    [heap |-> desc.h,
     dirs |-> mkdir_parents(ds, root),
     files |-> write_text(fl, root \o <<DescFileName>>, to_json(desc.h, desc.v)),
     frame |-> [NoFrame EXCEPT !.pc = "subject", !.target_path = root, !.bids_dict = loaded.v,
                               !._bids_dict = c.v, !.root = root, !.subject = 1],
     outcome |-> NoOutcome,
     trace |-> <<[op |-> "mkdir", path |-> root, text |-> <<>>, subject |-> 0],
                 [op |-> "write", path |-> root \o <<DescFileName>>,
                  text |-> to_json(desc.h, desc.v), subject |-> 0]>>]
PopDescription(h, o, popped) ==
    IF popped = None THEN Alloc(Upd(h, o, DictWithout(h[o], KeyDatasetDescription)), DefaultDescription)
    ELSE [h |-> Upd(h, o, DictWithout(h[o], KeyDatasetDescription)), v |-> popped]
\* lines 348-351
EnterCopied(loaded, c, ds, fl, root) ==
    IF mkdir_parents_fails(ds, fl, root)
    THEN RaiseEarly(c.h, ds, fl, root, "FileExistsError")
    ELSE EnterDescribed(loaded, c,
             PopDescription(c.h, loaded.v.r, DictGet(c.h[loaded.v.r], KeyDatasetDescription, None)),
             ds, fl, root)
\* line 347
EnterLoaded(loaded, ds, fl, target_path) ==
    IF loaded.exc # ""
    THEN RaiseEarly(loaded.h, ds, fl, target_path, loaded.exc)
    ELSE EnterCopied(loaded, deepcopy(loaded.h, loaded.v), ds, fl, target_path)
Enter(h, ds, fl, target_path, cfg) == EnterLoaded(LoadConfig(h, fl, cfg), ds, fl, target_path)
Entered(e) ==
    /\ heap' = e.heap
    /\ dirs' = e.dirs
    /\ files' = e.files
    /\ frame' = e.frame
    /\ outcome' = e.outcome
    /\ trace' = e.trace

\* a call of generate_bids_skeleton by the program
Call(target_path) ==
    /\ frame.pc \in {"idle", "returned", "raised"}
    /\ sim.pc \in {"idle", "returned", "raised"}
    /\ calls < MaxCalls
    /\ calls' = calls + 1
    /\ sim' = NoSim
    /\ UNCHANGED <<util, bids_config, original, formatted>>
    /\ \E e \in {Enter(heap, dirs, files, target_path, bids_config)} : Entered(e)

\* a subject name that always gets the prefix
NormalizeSubjectAlways(subject) == SubPrefix \o subject
\* line 360
NormalizeSubject(subject) == IF StartsWith(subject, SubPrefix) THEN subject ELSE SubPrefix \o subject
\* a session name that always gets the prefix
NormalizeSessionAlways(ses_name) == SesPrefix \o ses_name
\* line 375
NormalizeSession(ses_name) == IF StartsWith(ses_name, SesPrefix) THEN ses_name ELSE SesPrefix \o ses_name

\* a wildcard without a subject before it taken as a subject without sessions
NoPredecessorSkipped(h) ==
    [exc |-> "", h |-> Append(h, ListObj(<<>>)), v |-> Ref(Len(h) + 1), cache |-> None]

\* line 365 with cached_subject_data None: None has no attribute copy
NoPredecessor(h) == [exc |-> "AttributeError", h |-> h, v |-> None, cache |-> None]

\* line 365: cached_subject_data.copy(), a new list of the same session dicts
CopyCached(h, cached_subject_data) ==
    [h |-> Append(h, ListObj(h[cached_subject_data.r].vs)), v |-> Ref(Len(h) + 1)]

\* a single mapping wrapped as it is, its session item kept
WrapSingleAsGiven(h, sessions) ==
    IF IsDict(h, sessions)
    THEN [h |-> Append(h, ListObj(<<sessions>>)), v |-> Ref(Len(h) + 1)]
    ELSE [h |-> h, v |-> sessions]

\* lines 367-369: a single mapping gets session None and becomes a list of one
WrapSingle(h, sessions) ==
    IF IsDict(h, sessions)
    THEN LET h1 == Upd(h, sessions.r, DictWith(h[sessions.r], KeySession, None))
         IN [h |-> Append(h1, ListObj(<<sessions>>)), v |-> Ref(Len(h1) + 1)]
    ELSE [h |-> h, v |-> sessions]

\* a cache that is the session list itself
CacheSessionsShared(h, sessions) == [h |-> h, v |-> sessions]

\* line 371: the cache is a deep copy of the session list
CacheSessions(h, sessions) == deepcopy(h, sessions)

\* lines 364-371: the heap, the session list and the cache after resolving
\* a subject's value, or the exception raised
ResolveSessions(h, sessions, cached_subject_data) ==
    IF sessions = PyStr(Star) /\ cached_subject_data = None
    THEN NoPredecessor(h)
    ELSE LET star == IF sessions = PyStr(Star) THEN CopyCached(h, cached_subject_data)
                     ELSE [h |-> h, v |-> sessions]
             single == WrapSingle(star.h, star.v)
             c == CacheSessions(single.h, single.v)
         IN IF IsList(single.h, single.v)
            THEN [exc |-> "", h |-> c.h, v |-> single.v, cache |-> c.v]
            ELSE [exc |-> "TypeError", h |-> c.h, v |-> None, cache |-> None]

\* lines 359-371: one iteration of the subject loop, up to the session loop
SubjectStep ==
    /\ frame.pc = "subject"
    /\ frame.subject <= Len(heap[frame.bids_dict.r].ks)
    /\ LET item == Items(heap[frame.bids_dict.r])[frame.subject]
           bids_subject == NormalizeSubject(item[1])
           subj_path == frame.root \o <<bids_subject>>
       IN IF mkdir_exist_ok_fails(dirs, files, subj_path)
          THEN /\ Raise("FileExistsError")
               /\ UNCHANGED <<heap, dirs, trace>>
          ELSE LET r == ResolveSessions(heap, item[2], frame.cached_subject_data)
               IN /\ dirs' = mkdir_exist_ok(dirs, subj_path)
                  /\ trace' = Append(trace, Op("mkdir", subj_path, <<>>))
                  /\ heap' = r.h
                  /\ IF r.exc # ""
                     THEN Raise(r.exc)
                     ELSE /\ frame' = [frame EXCEPT !.pc = "session", !.bids_subject = bids_subject,
                                          !.subj_path = subj_path, !.sessions = r.v,
                                          !.cached_subject_data = r.cache, !.session = 1]
                          /\ UNCHANGED outcome
    /\ UNCHANGED <<util, sim, bids_config, original, files, calls, formatted>>

\* the working copy in place of the copy taken before the changes
ReturnedWorkingCopy(f) == f.bids_dict

\* line 405: the value returned
ReturnedValue(f) == f._bids_dict

\* line 405
Return ==
    /\ frame.pc = "subject"
    /\ frame.subject > Len(heap[frame.bids_dict.r].ks)
    /\ frame' = [frame EXCEPT !.pc = "returned"]
    /\ outcome' = Returned(ReturnedValue(frame))
    /\ UNCHANGED <<util, sim, heap, bids_config, original, dirs, files, calls, trace, formatted>>

\* lines 372-381: one iteration of the session loop, up to the modality loop
SessionStep ==
    /\ frame.pc = "session"
    /\ frame.session <= Len(heap[frame.sessions.r].vs)
    /\ LET session == heap[frame.sessions.r].vs[frame.session]
           ses_name == DictGet(heap[session.r], KeySession, None)
           h1 == Upd(heap, session.r, DictWithout(heap[session.r], KeySession))
       IN /\ heap' = h1
          /\ IF ses_name # None
             THEN IF ~IsStr(ses_name)
                  THEN /\ Raise("AttributeError")
                       /\ UNCHANGED <<dirs, trace>>
                  ELSE LET bids_session == NormalizeSession(ses_name.s)
                           curr_path == frame.subj_path \o <<bids_session>>
                       IN IF mkdir_exist_ok_fails(dirs, files, curr_path)
                          THEN /\ Raise("FileExistsError")
                               /\ UNCHANGED <<dirs, trace>>
                          ELSE /\ dirs' = mkdir_exist_ok(dirs, curr_path)
                               /\ trace' = Append(trace, Op("mkdir", curr_path, <<>>))
                               /\ frame' = [frame EXCEPT !.pc = "modality", !.modality = 1,
                                               !.bids_prefix = frame.bids_subject \o <<"_">> \o bids_session,
                                               !.curr_path = curr_path]
                               /\ UNCHANGED outcome
             ELSE /\ frame' = [frame EXCEPT !.pc = "modality", !.modality = 1,
                                  !.bids_prefix = frame.bids_subject,
                                  !.curr_path = frame.subj_path]
                  /\ UNCHANGED <<dirs, trace, outcome>>
    /\ UNCHANGED <<util, sim, bids_config, original, files, calls, formatted>>

\* line 372: the session loop is exhausted
EndSessions ==
    /\ frame.pc = "session"
    /\ frame.session > Len(heap[frame.sessions.r].vs)
    /\ frame' = [frame EXCEPT !.pc = "subject", !.subject = @ + 1]
    /\ UNCHANGED <<util, sim, heap, bids_config, original, dirs, files, outcome, calls, trace, formatted>>

\* lines 384-389: one iteration of the modality loop, up to the file loop
ModalityStep ==
    /\ frame.pc = "modality"
    /\ LET session == heap[frame.sessions.r].vs[frame.session]
       IN /\ frame.modality <= Len(heap[session.r].ks)
          /\ LET item == Items(heap[session.r])[frame.modality]
                 modality_path == frame.curr_path \o <<item[1]>>
                 listed == IF IsDict(heap, item[2])
                           THEN [h |-> Append(heap, ListObj(<<item[2]>>)), v |-> Ref(Len(heap) + 1)]
                           ELSE [h |-> heap, v |-> item[2]]
             IN IF mkdir_exist_ok_fails(dirs, files, modality_path)
                THEN /\ Raise("FileExistsError")
                     /\ UNCHANGED <<heap, dirs, trace>>
                ELSE /\ dirs' = mkdir_exist_ok(dirs, modality_path)
                     /\ trace' = Append(trace, Op("mkdir", modality_path, <<>>))
                     /\ heap' = listed.h
                     /\ IF IsList(listed.h, listed.v)
                        THEN /\ frame' = [frame EXCEPT !.pc = "file", !.modality_path = modality_path,
                                             !.files = listed.v, !.bids_file = 1]
                             /\ UNCHANGED outcome
                        ELSE Raise("TypeError")
    /\ UNCHANGED <<util, sim, bids_config, original, files, calls, formatted>>

\* line 384: the modality loop is exhausted
EndModalities ==
    /\ frame.pc = "modality"
    /\ frame.modality > Len(heap[heap[frame.sessions.r].vs[frame.session].r].ks)
    /\ frame' = [frame EXCEPT !.pc = "session", !.session = @ + 1]
    /\ UNCHANGED <<util, sim, heap, bids_config, original, dirs, files, outcome, calls, trace, formatted>>

\* pops that take the suffix like the extension, with a default
PopEntryOptionalSuffix(o) ==
    LET o1 == DictWithout(o, KeyMetadata)
        o2 == DictWithout(o1, KeyExtension)
    IN [metadata |-> DictGet(o, KeyMetadata, None),
        extension |-> DictGet(o1, KeyExtension, PyStr(NiiGz)),
        has_suffix |-> TRUE,
        suffix |-> DictGet(o2, KeySuffix, None),
        left |-> DictWithout(o2, KeySuffix)]

\* lines 392-394: what the three pops take from a file-entry and leave in it
PopEntry(o) ==
    LET o1 == DictWithout(o, KeyMetadata)
        o2 == DictWithout(o1, KeyExtension)
    IN [metadata |-> DictGet(o, KeyMetadata, None),
        extension |-> DictGet(o1, KeyExtension, PyStr(NiiGz)),
        has_suffix |-> HasKey(o2, KeySuffix),
        suffix |-> DictGet(o2, KeySuffix, None),
        left |-> IF HasKey(o2, KeySuffix) THEN DictWithout(o2, KeySuffix) ELSE o2]

\* a name with the suffix before the entities
DataFileNameSuffixFirst(bids_prefix, entities, suffix, extension) ==
    bids_prefix \o <<"_">> \o Str(suffix) \o entities \o Str(extension)

\* line 396: the name of the data file
DataFileName(bids_prefix, entities, suffix, extension) ==
    bids_prefix \o entities \o <<"_">> \o Str(suffix) \o Str(extension)

\* a sidecar named by replacing the extension at the end of the name only
SidecarNameTrailing(name, extension) ==
    IF EndsWith(name, extension) THEN SubSeq(name, 1, Len(name) - Len(extension)) \o DotJson ELSE name
\* a sidecar named by appending to the name of the data file
SidecarNameAppended(name, extension) == name \o DotJson

\* lines 400-402: the name of the sidecar
SidecarName(name, extension) == Replace(name, extension, DotJson)

\* lines 391-403: one iteration of the file loop
FileStep ==
    /\ frame.pc = "file"
    /\ frame.bids_file <= Len(heap[frame.files.r].vs)
    /\ LET bids_file == heap[frame.files.r].vs[frame.bids_file]
           p == PopEntry(heap[bids_file.r])
           entities == combine_entities(Items(p.left))
           name == DataFileName(frame.bids_prefix, entities, p.suffix, p.extension)
           data_file == frame.modality_path \o <<name>>
           out_metadata == frame.modality_path \o <<SidecarName(name, p.extension.s)>>
           text == to_json(heap, p.metadata)
       IN /\ heap' = Upd(heap, bids_file.r, p.left)
          /\ formatted' = IF p.has_suffix
                           THEN [entities |-> Items(p.left), result |-> entities]
                           ELSE formatted
          /\ IF ~p.has_suffix
             THEN /\ Raise("KeyError")
                  /\ UNCHANGED <<files, trace>>
             ELSE IF p.metadata = None
             THEN /\ files' = touch(files, data_file)
                  /\ trace' = Append(trace, Op("touch", data_file, <<>>))
                  /\ frame' = [frame EXCEPT !.bids_file = @ + 1]
                  /\ UNCHANGED outcome
             ELSE IF ~IsStr(p.extension)
             THEN /\ files' = touch(files, data_file)
                  /\ trace' = Append(trace, Op("touch", data_file, <<>>))
                  /\ Raise("TypeError")
             ELSE /\ files' = write_text(touch(files, data_file), out_metadata, text)
                  /\ trace' = trace \o <<Op("touch", data_file, <<>>), Op("write", out_metadata, text)>>
                  /\ frame' = [frame EXCEPT !.bids_file = @ + 1]
                  /\ UNCHANGED outcome
    /\ UNCHANGED <<util, sim, bids_config, original, dirs, calls>>

\* line 391: the file loop is exhausted
EndFiles ==
    /\ frame.pc = "file"
    /\ frame.bids_file > Len(heap[frame.files.r].vs)
    /\ frame' = [frame EXCEPT !.pc = "modality", !.modality = @ + 1]
    /\ UNCHANGED <<util, sim, heap, bids_config, original, dirs, files, outcome, calls, trace, formatted>>

(***************************************************************************)
(* simulate_dataset(output_dir, yaml_file, fill_files=False,               *)
(* datalad_init=False): the call up to the subject loop of                 *)
(* generate_bids_skeleton, whose steps are the actions above, and then     *)
(* what follows its return.  sim.datalad is the calls of datalad made, a    *)
(* library outside the repository: each either succeeds or raises.         *)
(***************************************************************************)
DatasetDirName == <<"s", "i", "m", "b", "i", "d", "s">>

\* line 418: a third positional argument is fill_files, which the caller
\* cannot then pass by keyword too
BindingFails(third, kw) == third # Absent /\ kw # Absent
BindFillFiles(third, kw) ==
    IF third # Absent THEN third ELSE IF kw # Absent THEN kw ELSE PyBool(FALSE)

\* a lookup that prefers the caller's file to the bundled one
ResolveYamlPathFirst(fl, yaml_file) ==
    IF <<yaml_file>> \in DOMAIN fl THEN [found |-> TRUE, text |-> fl[<<yaml_file>>]]
    ELSE IF yaml_file \in DOMAIN BundledFiles
    THEN [found |-> TRUE, text |-> BundledFiles[yaml_file]]
    ELSE [found |-> FALSE, text |-> <<>>]
\* lines 445-454: the text yaml_file names
ResolveYaml(fl, yaml_file) ==
    IF yaml_file \in DOMAIN BundledFiles
    THEN [found |-> TRUE, text |-> BundledFiles[yaml_file]]
    ELSE IF <<yaml_file>> \in DOMAIN fl THEN [found |-> TRUE, text |-> fl[<<yaml_file>>]]
    ELSE [found |-> FALSE, text |-> <<>>]

\* line 463: 10 MiB of random bytes, written as the pair of a mark and the
\* block drawn; every other text is a sequence of characters
FillBytes == 10 * 1024 * 1024
urandom(block) == <<"urandom", block>>
FileSize(text) == IF Len(text) = 2 /\ text[1] = "urandom" THEN FillBytes ELSE Len(text)

\* line 461: rglob('*.nii.gz') under root
Under(root, path) == Len(path) > Len(root) /\ SubSeq(path, 1, Len(root)) = root
\* a glob that matches every file under root
rglob_all(fl, root) == {path \in DOMAIN fl : Under(root, path)}
rglob_nii_gz(fl, root) == {path \in DOMAIN fl : Under(root, path) /\ EndsWith(path[Len(path)], NiiGz)}
\* lines 460-463
Fill(fl, root, block) ==
    [path \in DOMAIN fl |-> IF path \in rglob_nii_gz(fl, root) THEN urandom(block) ELSE fl[path]]

SimulateFails(s, exc) ==
    /\ sim' = [s EXCEPT !.pc = "raised", !.exc = exc]
    /\ frame' = NoFrame
    /\ outcome' = NoOutcome
    /\ trace' = <<>>
    /\ UNCHANGED <<heap, dirs, files>>

\* lines 440-457 for the call s, whose arguments are bound: up to the
\* subject loop of generate_bids_skeleton
Materialize(s) ==
    \E bids_skeleton \in {ResolveYaml(files, s.yaml_file)} :
        IF ~bids_skeleton.found
        THEN SimulateFails(s, "FileNotFoundError")
        ELSE IF ~Decodes(YamlDocs, bids_skeleton.text)
        THEN SimulateFails(s, "YAMLError")
        ELSE \E a \in {Alloc(heap, Decoded(YamlDocs, bids_skeleton.text))} :
             \E e \in {Enter(a.h, dirs, files, s.dataset_dir, a.v)} :
                /\ sim' = [s EXCEPT !.pc = "materialize"]
                /\ Entered(e)

\* lines 418-457
Simulate(output_dir, third, kw, datalad_init) ==
    /\ IsStr(bids_config)
    /\ frame.pc \in {"idle", "returned", "raised"}
    /\ sim.pc \in {"idle", "returned", "raised"}
    /\ calls < MaxCalls
    /\ calls' = calls + 1
    /\ UNCHANGED <<util, bids_config, original, formatted>>
    /\ \E called \in {[NoSim EXCEPT !.output_dir = output_dir, !.yaml_file = bids_config.s,
                                    !.third = third, !.kw = kw, !.datalad_init = datalad_init]} :
          IF BindingFails(third, kw)
          THEN SimulateFails(called, "TypeError")
          ELSE \E s \in {[called EXCEPT !.fill_files = BindFillFiles(third, kw),
                                        !.dataset_dir = output_dir \o <<DatasetDirName>>]} :
                  Materialize(s)

\* line 457: what generate_bids_skeleton raises, simulate_dataset raises
SimulateRaise ==
    /\ sim.pc = "materialize"
    /\ frame.pc = "raised"
    /\ sim' = [sim EXCEPT !.pc = "raised", !.exc = outcome.exc]
    /\ frame' = [frame EXCEPT !.pc = "idle"]
    /\ UNCHANGED <<util, heap, bids_config, original, dirs, files, outcome, calls, trace, formatted>>

\* a call that returns the dataset's directory
SimulatedDataset(s) == s.dataset_dir
\* line 472
SimulatedValue(s) == s.output_dir

\* lines 459-463; the generate_bids_skeleton call is over
SimulateFill ==
    /\ sim.pc = "materialize"
    /\ frame.pc = "returned"
    /\ IF Truthy(sim.fill_files)
       THEN \E block \in RandomBlocks : files' = Fill(files, sim.dataset_dir, block)
       ELSE UNCHANGED files
    /\ sim' = [sim EXCEPT !.pc = "filled"]
    /\ frame' = [frame EXCEPT !.pc = "idle"]
    /\ UNCHANGED <<util, heap, bids_config, original, dirs, outcome, calls, trace, formatted>>

\* a call that registers whether asked to or not
DataladAlways(s) == TRUE
\* line 465: if datalad_init
DataladRequested(s) == s.datalad_init
\* a datalad call that raises ends simulate_dataset
DataladError == "IncompleteResultsError"
DataladDir == <<".", "d", "a", "t", "a", "l", "a", "d">>
\* lines 465-467: dlapi.create(path=output_dir, force=True)
SimulateCreate ==
    /\ sim.pc = "filled"
    /\ DataladRequested(sim)
    /\ \/ /\ sim' = [sim EXCEPT !.pc = "created", !.datalad = Append(@, "create")]
          /\ dirs' = dirs \cup {sim.output_dir \o <<DataladDir>>}
       \/ /\ sim' = [sim EXCEPT !.pc = "raised", !.exc = DataladError]
          /\ UNCHANGED dirs
    /\ UNCHANGED <<util, heap, bids_config, original, files, frame, outcome, calls, trace, formatted>>

\* line 470: dlapi.save(dataset=output_dir, message='Add dataset')
SimulateSave ==
    /\ sim.pc = "created"
    /\ \/ sim' = [sim EXCEPT !.pc = "saved", !.datalad = Append(@, "save")]
       \/ sim' = [sim EXCEPT !.pc = "raised", !.exc = DataladError]
    /\ UNCHANGED <<util, heap, bids_config, original, dirs, files, frame, outcome, calls, trace, formatted>>

\* line 472
SimulateReturn ==
    /\ \/ sim.pc = "filled" /\ ~DataladRequested(sim)
       \/ sim.pc = "saved"
    /\ sim' = [sim EXCEPT !.pc = "returned", !.value = SimulatedValue(sim)]
    /\ UNCHANGED <<util, heap, bids_config, original, dirs, files, frame, outcome, calls, trace, formatted>>

Next ==
    \/ \E target_path \in Targets : Call(target_path)
    \/ \E output_dir \in OutputDirs, third \in ThirdArguments, kw \in KeywordArguments,
          datalad_init \in BOOLEAN :
          Simulate(output_dir, third, kw, datalad_init)
    \/ SimulateRaise
    \/ SimulateFill
    \/ SimulateCreate
    \/ SimulateSave
    \/ SimulateReturn
    \/ SubjectStep
    \/ SessionStep
    \/ ModalityStep
    \/ FileStep
    \/ EndFiles
    \/ EndModalities
    \/ EndSessions
    \/ Return

Spec == Init /\ [][Next]_vars

(***************************************************************************)
(* collect_derivatives(raw_dataset, derivatives_dataset, entities,         *)
(* fieldmap_id, spec, patterns, allow_multiple), with spaces None: one     *)
(* step per query.  A layout is the sequence of its files in the order     *)
(* layout.get returns them; a file is its name and its entities, "" for a  *)
(* session it lacks; a query gives for each entity the values it admits.   *)
(* entities is {'subject': '01'}, with 'session' when one is given.        *)
(***************************************************************************)
Sessions == {"", "01", "02"}
File(name, subject, session, suffix) ==
    [name |-> name, subject |-> subject, session |-> session, suffix |-> suffix]
DerivativeFiles ==
    <<File("a", "01", "01", "T1w"), File("b", "01", "01", "T1w"), File("c", "01", "02", "T1w"),
      File("d", "01", "", "T1w"), File("e", "01", "01", "bold"), File("f", "01", "01", "bold"),
      File("g", "01", "01", "xfm"), File("h", "01", "01", "xfm"), File("i", "01", "01", "boldxfm"),
      File("j", "01", "01", "boldxfm"), File("z", "02", "01", "T1w")>>
RawFiles == <<File("r", "01", "01", "bold"), File("s", "01", "01", "bold")>>
Layout(universe, names) ==
    [t |-> "layout", files |-> SelectSeq(universe, LAMBDA f : f.name \in names)]
\* the spec argument: the queries of each kind, by key, each on a suffix
AnatPrefix == <<"a", "n", "a", "t">>
CollectSpec ==
    [derivatives |-> << <<AnatPrefix \o <<"_", "p">>, "T1w">>, <<<<"b", "o", "l", "d">>, "bold">> >>,
     transforms |-> << <<AnatPrefix \o <<"2", "m">>, "xfm">>, <<<<"b", "2", "a">>, "boldxfm">> >>,
     raw |-> << <<<<"r", "a", "w">>, "bold">>, <<<<"t", "1">>, "T1w">> >>]

\* layout.get(return_type='filename', **query)
LayoutGet(layout, query) ==
    SelectSeq(layout.files, LAMBDA f : /\ f.subject \in query.subject
                                       /\ f.session \in query.session
                                       /\ f.suffix = query.suffix)
\* lines 181-185 and 215-219: the session of the entities, or no session
AnatQuery(session, suffix) == [subject |-> {"01"}, session |-> {session, ""}, suffix |-> suffix]
\* lines 193 and 230: any session
AnatQueryAny(suffix) == [subject |-> {"01"}, session |-> Sessions \ {""}, suffix |-> suffix]
\* lines 188, 222 and 311: the entities, overridden by the query
EntityQuery(session, suffix) ==
    [subject |-> {"01"}, session |-> IF session = "" THEN Sessions ELSE {session}, suffix |-> suffix]
\* lines 179-194 and 213-231: item
Find(layout, k, session, suffix) ==
    IF ~StartsWith(k, AnatPrefix) THEN LayoutGet(layout, EntityQuery(session, suffix))
    ELSE IF LayoutGet(layout, AnatQuery(session, suffix)) # <<>>
    THEN LayoutGet(layout, AnatQuery(session, suffix))
    ELSE LayoutGet(layout, AnatQueryAny(suffix))

\* what a key is set to, or the exception raised
Kept(v) == [exc |-> "", v |-> v]
Fails(exc) == [exc |-> exc, v |-> None]
PyPath(f) == [t |-> "path", name |-> f.name]
\* lines 211, 243 and 317: item[0] if len(item) == 1 else item
OneOrAll(item) ==
    IF Len(item) = 1 THEN PyPath(item[1])
    ELSE [t |-> "list", names |-> AsSeq([i \in 1..Len(item) |-> item[i].name])]
\* a choice that raises on any several matches
DerivativeItemStrict(k, item, allow_multiple) ==
    IF item = <<>> THEN Kept(None)
    ELSE IF ~allow_multiple /\ Len(item) > 1 THEN Fails("ValueError")
    ELSE Kept(OneOrAll(item))
\* lines 196-211
DerivativeItem(k, item, allow_multiple) ==
    IF item = <<>> THEN Kept(None)
    ELSE IF ~allow_multiple /\ Len(item) > 1 /\ StartsWith(k, AnatPrefix)
    THEN IF \E i \in 1..Len(item) : item[i].session = "" THEN Fails("KeyError")
         ELSE IF Cardinality({item[i].session : i \in 1..Len(item)}) > 1 THEN Fails("ValueError")
         ELSE Kept(PyPath(item[1]))
    ELSE IF ~allow_multiple /\ Len(item) > 1 THEN Fails("ValueError")
    ELSE Kept(OneOrAll(item))
\* lines 232-243
TransformItem(k, item, allow_multiple) ==
    IF item = <<>> THEN Kept(None)
    ELSE IF ~allow_multiple /\ Len(item) > 1 /\ StartsWith(k, AnatPrefix) THEN Kept(PyPath(item[1]))
    ELSE IF ~allow_multiple /\ Len(item) > 1 THEN Fails("ValueError")
    ELSE Kept(OneOrAll(item))
\* lines 312-317
RawItem(k, item, allow_multiple) ==
    IF item = <<>> THEN Kept(None)
    ELSE IF ~allow_multiple /\ Len(item) > 1 THEN Fails("ValueError")
    ELSE Kept(OneOrAll(item))

\* derivs_cache[k] = v, or the exception raised, and the place to go on at
Collected(u, queries, found, then) ==
    IF found.exc # "" THEN [u EXCEPT !.pc = "raised", !.exc = found.exc]
    ELSE [u EXCEPT !.derivs_cache = Append(@, <<queries[u.k][1], found.v>>),
                   !.loop = IF u.k < Len(queries) THEN @ ELSE then,
                   !.k = IF u.k < Len(queries) THEN @ + 1 ELSE 1]
UtilStep(u) ==
    /\ util' = u
    /\ UNCHANGED <<heap, bids_config, original, dirs, files, frame, outcome, calls, trace, formatted, sim>>

\* lines 170-211: one iteration over spec['derivatives']
CollectDerivative ==
    /\ util.op = "collect_derivatives" /\ util.pc = "running" /\ util.loop = "derivatives"
    /\ \E q \in {CollectSpec.derivatives[util.k]} :
       \E item \in {Find(util.derivatives_dataset, q[1], util.session, q[2])} :
          UtilStep(Collected(util, CollectSpec.derivatives,
                             DerivativeItem(q[1], item, util.allow_multiple), "transforms"))
\* lines 213-243: one iteration over spec['transforms']
CollectTransform ==
    /\ util.op = "collect_derivatives" /\ util.pc = "running" /\ util.loop = "transforms"
    /\ \E q \in {CollectSpec.transforms[util.k]} :
       \E item \in {Find(util.derivatives_dataset, q[1], util.session, q[2])} :
          UtilStep(Collected(util, CollectSpec.transforms,
                             TransformItem(q[1], item, util.allow_multiple), "raw?"))
\* line 304, before the loop, and the loop's condition in it
RawSearched(u) ==
    \/ u.loop = "raw"
    \/ u.loop = "raw?" /\ u.derivs_cache = <<>> /\ u.raw_dataset # None
\* lines 303-317: one iteration over spec['raw']
CollectRaw ==
    /\ util.op = "collect_derivatives" /\ util.pc = "running"
    /\ RawSearched(util)
    /\ \E q \in {CollectSpec.raw[util.k]} :
       \E item \in {LayoutGet(util.raw_dataset, EntityQuery(util.session, q[2]))} :
          UtilStep(Collected([util EXCEPT !.loop = "raw"], CollectSpec.raw,
                             RawItem(q[1], item, util.allow_multiple), "returning"))
\* line 319
CollectReturn ==
    /\ util.op = "collect_derivatives" /\ util.pc = "running"
    /\ util.loop = "returning" \/ (util.loop = "raw?" /\ ~RawSearched(util))
    /\ UtilStep([util EXCEPT !.pc = "returned"])

\* the calls of collect_derivatives: a derivatives dataset of any of the
\* files, or none, a raw dataset or none, a session or none, allow_multiple
CollectCalls ==
    {[NoUtil EXCEPT !.op = "collect_derivatives", !.pc = "running",
                    !.derivatives_dataset = derivatives_dataset, !.raw_dataset = raw_dataset,
                    !.session = session, !.allow_multiple = allow_multiple, !.k = 1,
                    !.loop = IF derivatives_dataset = None THEN "raw?" ELSE "derivatives"] :
        derivatives_dataset \in {None} \cup {Layout(DerivativeFiles, names \cup {"z"}) :
                                                names \in SUBSET {"a", "b", "c", "d", "e", "f", "g", "h", "i", "j"}},
        raw_dataset \in {None} \cup {Layout(RawFiles, names) : names \in {{}, {"r"}, {"r", "s"}}},
        session \in {"", "01"}, allow_multiple \in BOOLEAN}

(***************************************************************************)
(* update_dict(orig_dict, new_dict), on the heap: the copy, one step per   *)
(* item of new_dict, and the return.                                       *)
(***************************************************************************)
\* dict.update(other) with the items of a dict
RECURSIVE DictUpdate(_, _, _)
DictUpdate(o, items, k) ==
    IF k > Len(items) THEN o ELSE DictUpdate(DictWith(o, items[k][1], items[k][2]), items, k + 1)
\* line 248, updated_dict[key].update(value): the heap after it, or the
\* exception a str raises, as the object or as the argument
UpdateValue(h, target, value) ==
    IF ~IsDict(h, target) THEN [exc |-> "AttributeError", h |-> h]
    ELSE IF ~IsDict(h, value) THEN [exc |-> "ValueError", h |-> h]
    ELSE [exc |-> "", h |-> Upd(h, target.r, DictUpdate(h[target.r], Items(h[value.r]), 1))]

\* line 244: updated_dict = orig_dict.copy()
UpdateCall ==
    /\ util.op = "update_dict" /\ util.pc = "called"
    /\ heap' = Append(heap, heap[util.orig_dict.r])
    /\ util' = [util EXCEPT !.pc = "running", !.updated_dict = Ref(Len(heap) + 1), !.k = 1]
    /\ UNCHANGED <<bids_config, original, dirs, files, frame, outcome, calls, trace, formatted, sim>>
\* lines 245-249: one iteration over new_dict.items()
UpdateStep ==
    /\ util.op = "update_dict" /\ util.pc = "running"
    /\ util.k <= Len(heap[util.new_dict.r].ks)
    /\ \E item \in {Items(heap[util.new_dict.r])[util.k]} :
          IF DictGet(heap[util.orig_dict.r], item[1], None) # None /\ item[2] # None
          THEN \E updated \in {UpdateValue(heap, DictGet(heap[util.updated_dict.r], item[1], None),
                                            item[2])} :
                  /\ heap' = updated.h
                  /\ util' = IF updated.exc # ""
                             THEN [util EXCEPT !.pc = "raised", !.exc = updated.exc]
                             ELSE [util EXCEPT !.k = @ + 1]
          ELSE /\ heap' = IF item[2] # None
                          THEN Upd(heap, util.updated_dict.r,
                                   DictWith(heap[util.updated_dict.r], item[1], item[2]))
                          ELSE heap
               /\ util' = [util EXCEPT !.k = @ + 1]
    /\ UNCHANGED <<bids_config, original, dirs, files, frame, outcome, calls, trace, formatted, sim>>
\* line 251
UpdateReturn ==
    /\ util.op = "update_dict" /\ util.pc = "running"
    /\ util.k > Len(heap[util.new_dict.r].ks)
    /\ UtilStep([util EXCEPT !.pc = "returned"])

\* the arguments of update_dict: dicts of up to two keys, each value None,
\* a str or a mapping
UpdateValues ==
    {None, PyStr(<<"s">>), Dict(<< <<<<"x">>, PyInt(1)>> >>),
     Dict(<< <<<<"x">>, PyInt(2)>>, <<<<"y">>, PyInt(3)>> >>)}
UpdateDicts ==
    {Dict(<<>>)} \cup {Dict(<< <<<<"a">>, v>> >>) : v \in UpdateValues}
    \cup {Dict(<< <<<<"a">>, v>>, <<<<"b">>, w>> >>) : v \in UpdateValues, w \in UpdateValues}

UtilInit ==
    /\ bids_config = None /\ original = None
    /\ dirs = {} /\ files = InitialFiles
    /\ frame = NoFrame /\ outcome = NoOutcome /\ calls = 0 /\ trace = <<>>
    /\ formatted = [entities |-> <<>>, result |-> <<>>]
    /\ sim = NoSim
    /\ \/ heap = <<>> /\ util \in CollectCalls
       \/ \E orig_dict \in UpdateDicts, new_dict \in UpdateDicts :
             \E o \in {Alloc(<<>>, orig_dict)} : \E n \in {Alloc(o.h, new_dict)} :
                /\ heap = n.h
                /\ util = [NoUtil EXCEPT !.op = "update_dict", !.pc = "called", !.orig_dict = o.v,
                                         !.new_dict = n.v, !.before = orig_dict]

UtilNext ==
    \/ CollectDerivative
    \/ CollectTransform
    \/ CollectRaw
    \/ CollectReturn
    \/ UpdateCall
    \/ UpdateStep
    \/ UpdateReturn

UtilSpec == UtilInit /\ [][UtilNext]_vars

(***************************************************************************)
(* The skeleton the caller passed, as the specification reads it.  The     *)
(* statements below compare what the call did with this reading.           *)
(***************************************************************************)
\* the skeleton of the call: the caller's mapping, or the decoded file
\* the text a simulate_dataset call is to read for a name: the bundled
\* configuration of that name, else the file of that name
NamedText(name) ==
    IF name \in DOMAIN BundledFiles THEN BundledFiles[name]
    ELSE IF <<name>> \in DOMAIN InitialFiles THEN InitialFiles[<<name>>] ELSE BadText
SkeletonTree ==
    IF IsRef(bids_config) THEN original
    ELSE IF sim.pc # "idle" /\ Decodes(YamlDocs, NamedText(sim.yaml_file))
    THEN Decoded(YamlDocs, NamedText(sim.yaml_file))
    ELSE ConfigTree
\* the argument is a mapping, or names a configuration file that decodes
ValidArgument ==
    \/ IsRef(bids_config)
    \/ /\ IsStr(bids_config)
       /\ <<bids_config.s>> \in DOMAIN files
       /\ Decodes(YamlDocs, files[<<bids_config.s>>])

TreeHas(tree, k) == \E i \in 1..Len(tree.items) : tree.items[i][1] = k
TreeGet(tree, k, default) ==
    IF TreeHas(tree, k)
    THEN tree.items[CHOOSE i \in 1..Len(tree.items) : tree.items[i][1] = k][2]
    ELSE default
RECURSIVE Without(_, _)
Without(items, keys) ==
    IF items = <<>> THEN <<>>
    ELSE (IF Head(items)[1] \in keys THEN <<>> ELSE <<Head(items)>>) \o Without(Tail(items), keys)

\* the files below a directory
FilesUnder(root) == {p \in DOMAIN files : StartsWith(p, root) /\ p # root}

\* C1: generate_bids_skeleton never changes the mapping the caller passed:
\* in every state, before, during and after every call, whether the call
\* returns or raises, the caller's object is equal at every nesting level
\* to what it was before the first call.
C1_CallerSkeletonUnchanged == IsRef(bids_config) => Deref(heap, bids_config) = original
\* a call on a mapping has ended and has changed its working copy
C1_Witness ==
    /\ IsRef(bids_config)
    /\ frame.pc \in {"returned", "raised"}
    /\ IsRef(frame.bids_dict)
    /\ Deref(heap, frame.bids_dict) # original

\* C2: a call whose target path exists raises (FileExistsError when the
\* argument is a skeleton or a file that decodes to one) and leaves every
\* directory and every file as it was; so a call that does not raise at
\* once, the only kind that can return, found its target path absent.
C2_ExistingTargetRefused ==
    [][\A t \in Targets :
          (calls' = calls + 1 /\ frame'.target_path = t /\ Exists(dirs, files, t))
              => /\ outcome'.kind = "raised"
                 /\ ValidArgument => outcome'.exc = "FileExistsError"
                 /\ dirs' = dirs
                 /\ files' = files]_vars
\* a call on the target of an earlier call that returned has been refused
C2_Witness ==
    /\ outcome.kind = "raised"
    /\ outcome.exc = "FileExistsError"
    /\ frame.target_path \in dirs
    /\ FilesUnder(frame.target_path) # {}

\* the default description the specification fixes
C3_FixedDefault ==
    Dict(<< <<<<"N", "a", "m", "e">>, PyStr(<<"D", "e", "f", "a", "u", "l", "t">>)>>,
            <<<<"B", "I", "D", "S", "V", "e", "r", "s", "i", "o", "n">>, PyStr(<<"1", ".", "6", ".", "0">>)>> >>)
\* C3, as the specification states it: after every call that returned,
\* <target>/dataset_description.json exists and holds the JSON text of the
\* skeleton's dataset_description value when the skeleton has that key, and
\* of {"Name": "Default", "BIDSVersion": "1.6.0"} otherwise; and no
\* directory <target>/sub-dataset_description exists.
C3_AsStated ==
    frame.pc = "returned" =>
        LET path == frame.target_path \o <<DescFileName>>
        IN /\ path \in DOMAIN files
           /\ files[path] = JsonDumps(TreeGet(SkeletonTree, KeyDatasetDescription, C3_FixedDefault))
           /\ frame.target_path \o <<SubPrefix \o KeyDatasetDescription>> \notin dirs
\* C3: after every call that returned, <target>/dataset_description.json
\* exists and holds the JSON text of the skeleton's dataset_description
\* value when the skeleton has that key with a value other than null, and
\* of {"Name": "Default", "BIDSVersion": "1.6.0"} when the key is absent or
\* its value is null; and no directory <target>/sub-dataset_description
\* exists.
C3_DatasetDescription ==
    frame.pc = "returned" =>
        LET path == frame.target_path \o <<DescFileName>>
            given == TreeGet(SkeletonTree, KeyDatasetDescription, None)
        IN /\ path \in DOMAIN files
           /\ files[path] = JsonDumps(IF given = None THEN C3_FixedDefault ELSE given)
           /\ frame.target_path \o <<SubPrefix \o KeyDatasetDescription>> \notin dirs
\* a call on a skeleton whose dataset_description is a mapping has returned
C3_Witness ==
    /\ frame.pc = "returned"
    /\ TreeHas(SkeletonTree, KeyDatasetDescription)
    /\ TreeGet(SkeletonTree, KeyDatasetDescription, None) # None
(***************************************************************************)
(* The file-entries of the skeleton in the order the specification         *)
(* processes them: subjects, then session-entries, then modalities, then   *)
(* entries, a wildcard subject standing for the session-entries of the     *)
(* subject before it.                                                      *)
(***************************************************************************)
Reserved == {KeyMetadata, KeyExtension, KeySuffix}
IsStar(value) == value.t = "str" /\ value.s = Star
Subjects(tree) == Without(tree.items, {KeyDatasetDescription})
\* an identifier with its prefix, added only when absent
Prefixed(prefix, id) == IF StartsWith(id, prefix) THEN id ELSE prefix \o id

RECURSIVE SessionEntries(_, _)
SessionEntries(subjects, i) ==
    LET value == subjects[i][2]
    IN IF IsStar(value)
       THEN IF i = 1 THEN <<>> ELSE SessionEntries(subjects, i - 1)
       ELSE IF value.t = "dict"
       THEN <<[session |-> None, modalities |-> Without(value.items, {KeySession})]>>
       ELSE AsSeq([j \in 1..Len(value.elems) |->
                     [session |-> TreeGet(value.elems[j], KeySession, None),
                      modalities |-> Without(value.elems[j].items, {KeySession})]])

FileEntries(value) == IF value.t = "dict" THEN <<value>> ELSE value.elems

Entries(tree) ==
    LET subjects == Subjects(tree)
    IN Concat(AsSeq([i \in 1..Len(subjects) |->
        LET ses == SessionEntries(subjects, i)
        IN Concat(AsSeq([j \in 1..Len(ses) |->
            Concat(AsSeq([m \in 1..Len(ses[j].modalities) |->
                LET fs == FileEntries(ses[j].modalities[m][2])
                IN AsSeq([f \in 1..Len(fs) |->
                     [subject |-> i, id |-> subjects[i][1], given |-> subjects[i][2].t,
                      session |-> ses[j].session, modality |-> ses[j].modalities[m][1],
                      entry |-> fs[f]]])]))]))]))

\* where the specification puts an entry, below the target path
EntrySubject(e) == Prefixed(SubPrefix, e.id)
EntryDirectory(e) ==
    <<EntrySubject(e)>>
    \o (IF e.session = None THEN <<>> ELSE <<Prefixed(SesPrefix, e.session.s)>>)
    \o <<e.modality>>
EntryStem(e) ==
    EntrySubject(e)
    \o (IF e.session = None THEN <<>> ELSE <<"_">> \o Prefixed(SesPrefix, e.session.s))
    \o combine_entities(Without(e.entry.items, Reserved))
    \o <<"_">> \o Str(TreeGet(e.entry, KeySuffix, None))
EntryExtension(e) == Str(TreeGet(e.entry, KeyExtension, PyStr(NiiGz)))
DataFile(e) == frame.target_path \o EntryDirectory(e) \o <<EntryStem(e) \o EntryExtension(e)>>
Sidecar(e) ==
    frame.target_path \o EntryDirectory(e)
    \o <<Replace(EntryStem(e) \o EntryExtension(e), EntryExtension(e), DotJson)>>
Metadata(e) == TreeGet(e.entry, KeyMetadata, None)

\* the data files the running call has created, in order
Touched == SelectSeq(trace, LAMBDA o : o.op = "touch")

C5_DataFileNames ==
    LET entries == Entries(SkeletonTree)
    IN /\ Len(Touched) <= Len(entries)
       /\ \A k \in 1..Len(Touched) :
            LET e == entries[k]
                path == Touched[k].path
            IN path[Len(path)] =
                Prefixed(SubPrefix, e.id)
                \o (IF e.session = None THEN <<>> ELSE <<"_">> \o Prefixed(SesPrefix, e.session.s))
                \o combine_entities(Without(e.entry.items, {KeyMetadata, KeyExtension, KeySuffix}))
                \o <<"_">> \o Str(TreeGet(e.entry, KeySuffix, None))
                \o Str(TreeGet(e.entry, KeyExtension, PyStr(NiiGz)))
\* a call has created the data file of an entry with two entities and an
\* extension of its own
C5_Witness ==
    /\ Touched # <<>>
    /\ LET e == Entries(SkeletonTree)[Len(Touched)]
       IN /\ TreeHas(e.entry, KeyExtension)
          /\ Len(Without(e.entry.items, Reserved)) = 2
          /\ Len(e.entry.items) > 3

\* C6: combine_entities returns the empty string for no entities, and for
\* entities l1=v1, l2=v2, ... the string _l1-v1_l2-v2..., a pair per entity
\* in the order given, the values rendered by str(), whatever the labels
\* and values are; it reads and changes nothing but its argument.
RECURSIVE C6_Fragment(_)
C6_Fragment(entities) ==
    IF entities = <<>> THEN <<>>
    ELSE <<"_">> \o Head(entities)[1] \o <<"-">> \o Str(Head(entities)[2]) \o C6_Fragment(Tail(entities))
C6_EntityFormatter ==
    /\ formatted.result = C6_Fragment(formatted.entities)
    /\ formatted.entities = <<>> => formatted.result = <<>>
\* combine_entities has been applied to two entities, one of them an int
C6_Witness ==
    /\ Len(formatted.entities) = 2
    /\ \E i \in 1..2 : formatted.entities[i][2].t = "int"
\* the filesystem operations of the running call under its i-th subject
SubjectOps(i) == SelectSeq(trace, LAMBDA o : o.subject = i)
\* an operation as its subject sees it: the path below the subject's
\* directory, the subject prefix of a file name replaced by a mark
Relative(o, sub) ==
    LET below == SubSeq(o.path, Len(frame.target_path) + 2, Len(o.path))
        name == below[Len(below)]
    IN [op |-> o.op, text |-> o.text,
        inside |-> o.path[Len(frame.target_path) + 1] = sub,
        path |-> IF o.op = "mkdir" THEN below
                 ELSE SubSeq(below, 1, Len(below) - 1)
                      \o <<[prefixed |-> StartsWith(name, sub),
                            rest |-> SubSeq(name, Len(sub) + 1, Len(name))]>>]
RelativeOps(subjects, i) ==
    LET ops == SubjectOps(i)
    IN AsSeq([k \in 1..Len(ops) |-> Relative(ops[k], Prefixed(SubPrefix, subjects[i][1]))])
IsPrefix(s, t) == Len(s) <= Len(t) /\ s = SubSeq(t, 1, Len(s))

\* C7: for a subject whose value is "*", that is not the first, the
\* directories made, data files created and sidecars written under it are,
\* in order and relative to the subject's directory and prefix, those of
\* the subject before it: a prefix of them while the call is in the
\* subject, all of them once it is past it.  The call does not raise in
\* such a subject, and what it made for it is on the filesystem.
C7_Wildcard ==
    LET subjects == Subjects(SkeletonTree)
    IN \A i \in 2..Len(subjects) :
        (IsStar(subjects[i][2]) /\ frame.subject >= i) =>
            /\ IsPrefix(RelativeOps(subjects, i), RelativeOps(subjects, i - 1))
            /\ frame.subject > i => RelativeOps(subjects, i) = RelativeOps(subjects, i - 1)
            /\ ~(frame.pc = "raised" /\ frame.subject = i)
            /\ \A k \in 1..Len(SubjectOps(i)) :
                 IF SubjectOps(i)[k].op = "mkdir" THEN SubjectOps(i)[k].path \in dirs
                 ELSE SubjectOps(i)[k].path \in DOMAIN files
\* a call is past a wildcard subject that follows a wildcard subject, and
\* has created sessions, data files and sidecars for it
C7_Witness ==
    LET subjects == Subjects(SkeletonTree)
    IN \E i \in 3..Len(subjects) :
        /\ IsStar(subjects[i][2]) /\ IsStar(subjects[i - 1][2])
        /\ frame.subject > i
        /\ \E k \in 1..Len(SubjectOps(i)) : SubjectOps(i)[k].op = "write"
        /\ \E k \in 1..Len(SubjectOps(i)) :
              SubjectOps(i)[k].op = "mkdir" /\ Len(SubjectOps(i)[k].path) = Len(frame.target_path) + 3

\* a skeleton of one subject, a single mapping of one modality of one entry
OneEntry(tree) ==
    /\ Len(Subjects(tree)) = 1
    /\ Subjects(tree)[1][2].t = "dict"
    /\ Len(Entries(tree)) = 1
    /\ Len(Without(Subjects(tree)[1][2].items, {KeySession})) = 1
\* the directories below a directory
DirsUnder(root) == {p \in dirs : StartsWith(p, root) /\ p # root}

\* C8, as the specification states it: the call makes no session directory
\* for a subject that is a single mapping; each of its entries' files is at
\* <target>/sub-<id>/<modality>/sub-<id><entities>_<suffix><ext>; and after
\* a call that returned on a skeleton of one such subject with one entry
\* the files below the target are dataset_description.json and that file.
C8_AsStated ==
    LET entries == Entries(SkeletonTree)
        subjects == Subjects(SkeletonTree)
    IN /\ \A i \in 1..Len(subjects) :
            subjects[i][2].t = "dict" =>
                \A k \in 1..Len(SubjectOps(i)) :
                    SubjectOps(i)[k].op = "mkdir" =>
                        Len(SubjectOps(i)[k].path) <= Len(frame.target_path) + 2
       /\ frame.pc = "returned" =>
            /\ \A k \in 1..Len(entries) :
                entries[k].given = "dict" =>
                    frame.target_path
                    \o <<Prefixed(SubPrefix, entries[k].id), entries[k].modality,
                         EntryStem(entries[k]) \o EntryExtension(entries[k])>> \in DOMAIN files
            /\ OneEntry(SkeletonTree) =>
                FilesUnder(frame.target_path)
                    = {frame.target_path \o <<DescFileName>>, DataFile(entries[1])}

\* C8: the call makes no session directory for a subject that is a single
\* mapping: the directories it makes for the subject are the subject's and
\* its modalities'; each of its entries' files is at
\* <target>/sub-<id>/<modality>/sub-<id><entities>_<suffix><ext>; and after
\* a call that returned on a skeleton of one such subject with one entry
\* the files below the target are dataset_description.json, that file and,
\* when the entry has metadata, its sidecar, in the subject's and the
\* modality's directories and no other.
C8_SingleMapping ==
    LET entries == Entries(SkeletonTree)
        subjects == Subjects(SkeletonTree)
    IN /\ \A i \in 1..Len(subjects) :
            subjects[i][2].t = "dict" =>
                \A k \in 1..Len(SubjectOps(i)) :
                    SubjectOps(i)[k].op = "mkdir" =>
                        \/ SubjectOps(i)[k].path
                             = frame.target_path \o <<Prefixed(SubPrefix, subjects[i][1])>>
                        \/ \E m \in 1..Len(subjects[i][2].items) :
                             SubjectOps(i)[k].path
                               = frame.target_path
                                 \o <<Prefixed(SubPrefix, subjects[i][1]), subjects[i][2].items[m][1]>>
       /\ frame.pc = "returned" =>
            /\ \A k \in 1..Len(entries) :
                entries[k].given = "dict" =>
                    frame.target_path
                    \o <<Prefixed(SubPrefix, entries[k].id), entries[k].modality,
                         EntryStem(entries[k]) \o EntryExtension(entries[k])>> \in DOMAIN files
            /\ OneEntry(SkeletonTree) =>
                /\ FilesUnder(frame.target_path)
                    = {frame.target_path \o <<DescFileName>>, DataFile(entries[1])}
                      \cup (IF Metadata(entries[1]) = None THEN {} ELSE {Sidecar(entries[1])})
                /\ DirsUnder(frame.target_path)
                    = {frame.target_path \o <<EntrySubject(entries[1])>>,
                       frame.target_path \o <<EntrySubject(entries[1]), entries[1].modality>>}
\* a call has returned on a skeleton of one subject, a single mapping with
\* a session item and one entry with metadata
C8_Witness ==
    /\ frame.pc = "returned"
    /\ IsRef(bids_config)
    /\ OneEntry(SkeletonTree)
    /\ TreeHas(Subjects(SkeletonTree)[1][2], KeySession)
    /\ Metadata(Entries(SkeletonTree)[1]) # None

\* C9: after a call that returned, for every file-entry of a session-entry
\* whose session is not null, <target>/<subject>/<session> is a directory
\* and the entry's file is
\* <target>/<subject>/<session>/<modality>/<subject>_<session><entities>_<suffix><ext>,
\* the subject and session with sub- and ses- added only when absent; for
\* every file-entry of a session-entry whose session is null or missing
\* the entry's file is <target>/<subject>/<modality>/<subject><entities>_<suffix><ext>.
C9_SessionLayout ==
    frame.pc = "returned" =>
        \A k \in 1..Len(Entries(SkeletonTree)) :
            LET e == Entries(SkeletonTree)[k]
                subject == IF StartsWith(e.id, SubPrefix) THEN e.id ELSE SubPrefix \o e.id
                rest == combine_entities(Without(e.entry.items, Reserved))
                        \o <<"_">> \o Str(TreeGet(e.entry, KeySuffix, None)) \o EntryExtension(e)
            IN IF e.session # None
               THEN LET session == IF StartsWith(e.session.s, SesPrefix) THEN e.session.s
                                   ELSE SesPrefix \o e.session.s
                    IN /\ frame.target_path \o <<subject, session>> \in dirs
                       /\ frame.target_path \o <<subject, session, e.modality>> \in dirs
                       /\ frame.target_path
                          \o <<subject, session, e.modality, subject \o <<"_">> \o session \o rest>>
                            \in DOMAIN files
               ELSE /\ frame.target_path \o <<subject, e.modality>> \in dirs
                    /\ frame.target_path \o <<subject, e.modality, subject \o rest>> \in DOMAIN files
\* a call has returned on a skeleton with a session given with its prefix,
\* a session given without it and a session-entry without a session
C9_Witness ==
    /\ frame.pc = "returned"
    /\ \E k \in 1..Len(Entries(SkeletonTree)) :
          LET s == Entries(SkeletonTree)[k].session
          IN s # None /\ StartsWith(s.s, SesPrefix)
    /\ \E k \in 1..Len(Entries(SkeletonTree)) :
          LET s == Entries(SkeletonTree)[k].session
          IN s # None /\ ~StartsWith(s.s, SesPrefix)
    /\ \E k \in 1..Len(Entries(SkeletonTree)) :
          Entries(SkeletonTree)[k].given = "list" /\ Entries(SkeletonTree)[k].session = None

\* C10: when file-entries of the skeleton lack suffix, k being the first of
\* them in processing order, the call never returns; it never creates a
\* data file for the k-th entry or a later one, and every file it creates
\* or writes is the data file or the sidecar of an entry before the k-th;
\* and when it has raised in the subject of the k-th entry after creating
\* the data files of all the entries before, it has raised KeyError.
C10_MissingSuffix ==
    LET entries == Entries(SkeletonTree)
        lacking == {k \in 1..Len(entries) : ~TreeHas(entries[k].entry, KeySuffix)}
        first == CHOOSE k \in lacking : \A j \in lacking : k <= j
    IN (IsRef(bids_config) /\ lacking # {}) =>
        /\ frame.pc # "returned"
        /\ Len(Touched) < first
        /\ \A n \in 1..Len(trace) :
             trace[n].op \in {"touch", "write"} /\ trace[n].subject > 0 =>
                \E j \in 1..(first - 1) : trace[n].path \in {DataFile(entries[j]), Sidecar(entries[j])}
        /\ (frame.pc = "raised" /\ frame.subject = entries[first].subject
              /\ Len(Touched) = first - 1)
             => outcome.exc = "KeyError"
\* a call has raised KeyError at an entry without suffix, after it created
\* a data file and before it came to a later entry
C10_Witness ==
    /\ frame.pc = "raised"
    /\ outcome.exc = "KeyError"
    /\ Touched # <<>>
    /\ Len(Entries(SkeletonTree)) > Len(Touched) + 1
\* C11: when the first subject of the skeleton has the value "*", the call
\* never returns and never enters the session loop of any subject; below
\* the target there is no file but dataset_description.json; and when the
\* call has raised in the first subject, it has raised AttributeError.
C11_WildcardFirst ==
    (Subjects(SkeletonTree) # <<>> /\ IsStar(Subjects(SkeletonTree)[1][2])) =>
        /\ frame.pc \in {"idle", "subject", "raised"}
        /\ frame.subject <= 1
        /\ \A n \in 1..Len(trace) : trace[n].op \in {"touch", "write"} => trace[n].subject = 0
        /\ frame.target_path # <<>> =>
             FilesUnder(frame.target_path) \subseteq {frame.target_path \o <<DescFileName>>}
        /\ (frame.pc = "raised" /\ frame.subject = 1) => outcome.exc = "AttributeError"
\* a call has raised in a first subject "*" that other subjects follow
C11_Witness ==
    /\ Len(Subjects(SkeletonTree)) > 1
    /\ IsStar(Subjects(SkeletonTree)[1][2])
    /\ ~IsStar(Subjects(SkeletonTree)[2][2])
    /\ frame.pc = "raised"
    /\ frame.subject = 1
    /\ frame.target_path \o <<DescFileName>> \in DOMAIN files

\* C12: the value a call returns is equal, at every nesting level, to the
\* skeleton as it was before the call: it has the dataset_description item
\* if the skeleton has one, "*" where the skeleton has it, every session,
\* metadata, extension and suffix item of the skeleton, and no session item
\* in a single mapping that has none.
C12_ReturnsInput ==
    outcome.kind = "returned" =>
        LET value == Deref(heap, outcome.value)
        IN /\ value = SkeletonTree
           /\ TreeHas(value, KeyDatasetDescription) <=> TreeHas(SkeletonTree, KeyDatasetDescription)
           /\ \A i \in 1..Len(value.items) :
                value.items[i][2].t = "dict" /\ value.items[i][1] # KeyDatasetDescription =>
                    (TreeHas(value.items[i][2], KeySession)
                        <=> TreeHas(SkeletonTree.items[i][2], KeySession))
\* a call has returned on a skeleton with a dataset_description, a single
\* mapping without a session item and a wildcard
C12_Witness ==
    /\ outcome.kind = "returned"
    /\ IsRef(bids_config)
    /\ TreeHas(SkeletonTree, KeyDatasetDescription)
    /\ \E i \in 1..Len(Subjects(SkeletonTree)) : IsStar(Subjects(SkeletonTree)[i][2])
    /\ \E i \in 1..Len(Subjects(SkeletonTree)) :
          /\ Subjects(SkeletonTree)[i][2].t = "dict"
          /\ ~TreeHas(Subjects(SkeletonTree)[i][2], KeySession)
\* what JSON decoding, then YAML decoding, makes of a text that decodes
DecodedText(text) ==
    IF Decodes(JsonDocs, text) THEN Decoded(JsonDocs, text) ELSE Decoded(YamlDocs, text)

\* C13, as the specification states it: a call with a str that is JSON or
\* YAML text of a mapping materializes that mapping, so it raises only on
\* an existing target and returns the decoded mapping; a call with a str
\* that is text that does not decode raises the decoding error.
C13_AsStated ==
    (IsStr(bids_config) /\ sim.pc = "idle" /\ frame.pc \in {"returned", "raised"}) =>
        /\ Decodes(YamlDocs, bids_config.s) =>
            /\ frame.pc = "raised" => outcome.exc = "FileExistsError"
            /\ frame.pc = "returned" => Deref(heap, outcome.value) = DecodedText(bids_config.s)
        /\ bids_config.s = BadText => outcome.exc = "YAMLError"

\* C13: a call with a str reads the file the str names.  When there is no
\* such file the call raises FileNotFoundError and makes nothing, whatever
\* text the str is; when the file's text decodes, as JSON or else as YAML,
\* the call raises only on an existing target, and having returned it has
\* returned the decoded mapping and created the data files of its entries;
\* when the text does not decode the call raises YAMLError and makes
\* nothing.
C13_StringNamesFile ==
    (IsStr(bids_config) /\ sim.pc = "idle" /\ frame.pc \in {"returned", "raised"}) =>
        IF <<bids_config.s>> \notin DOMAIN InitialFiles
        THEN frame.pc = "raised" /\ outcome.exc = "FileNotFoundError" /\ trace = <<>>
        ELSE IF Decodes(YamlDocs, InitialFiles[<<bids_config.s>>])
        THEN LET tree == DecodedText(InitialFiles[<<bids_config.s>>])
             IN /\ frame.pc = "raised" => outcome.exc = "FileExistsError" /\ trace = <<>>
                /\ frame.pc = "returned" =>
                    /\ Deref(heap, outcome.value) = tree
                    /\ Entries(tree) # <<>>
                    /\ \A k \in 1..Len(Entries(tree)) : DataFile(Entries(tree)[k]) \in DOMAIN files
        ELSE frame.pc = "raised" /\ outcome.exc = "YAMLError" /\ trace = <<>>
\* a call with a str that is the JSON text of a mapping, and names no file,
\* has raised
C13_Witness ==
    /\ IsStr(bids_config)
    /\ Decodes(JsonDocs, bids_config.s)
    /\ <<bids_config.s>> \notin DOMAIN InitialFiles
    /\ frame.pc = "raised"

(***************************************************************************)
(* simulate_dataset.  A call is read from sim: its arguments as the caller *)
(* passed them, and how it ended.                                          *)
(***************************************************************************)
\* the call's arguments were bound
Bound == sim.pc # "idle" /\ ~(sim.pc = "raised" /\ sim.exc = "TypeError")
IsBundled(name) == name \in DOMAIN BundledFiles
IsFile(name) == <<name>> \in DOMAIN InitialFiles
\* generate_bids_skeleton has returned to the simulate_dataset call
Materialized == sim.pc = "materialize" /\ frame.pc = "returned"

\* C14: a simulate_dataset call reads the bundled configuration of the
\* given name when there is one, also when a file of that name exists with
\* another text; else the file of that name; and when there is neither it
\* raises FileNotFoundError, and only then, with nothing made: no
\* filesystem operation, and the output directory absent with nothing
\* under it.
C14_ResolutionOrder ==
    Bound =>
        /\ (sim.pc = "raised" /\ sim.exc = "FileNotFoundError")
              <=> (~IsBundled(sim.yaml_file) /\ ~IsFile(sim.yaml_file))
        /\ (sim.pc = "raised" /\ sim.exc = "FileNotFoundError") =>
              /\ trace = <<>>
              /\ ~Exists(dirs, files, sim.output_dir)
              /\ FilesUnder(sim.output_dir) = {} /\ DirsUnder(sim.output_dir) = {}
        /\ Materialized =>
              Deref(heap, outcome.value)
                = IF IsBundled(sim.yaml_file) THEN Decoded(YamlDocs, BundledFiles[sim.yaml_file])
                  ELSE Decoded(YamlDocs, InitialFiles[<<sim.yaml_file>>])
\* a call has materialized the configuration of a name that is both
\* bundled and, with another text, a file
C14_Witness ==
    /\ Materialized
    /\ IsBundled(sim.yaml_file) /\ IsFile(sim.yaml_file)
    /\ InitialFiles[<<sim.yaml_file>>] # BundledFiles[sim.yaml_file]
\* a call has failed to find its configuration
C14_WitnessNotFound == sim.pc = "raised" /\ sim.exc = "FileNotFoundError"

\* the call is given a configuration that is found and decodes
Resolvable ==
    LET name == sim.yaml_file
    IN \/ IsBundled(name)
       \/ IsFile(name) /\ Decodes(YamlDocs, InitialFiles[<<name>>])
\* the third argument, which the specification calls the granularity
Granularity(level) == sim.pc # "idle" /\ sim.third = PyStr(level)
\* nothing is at the output directory or under it
OutputUntouched ==
    /\ ~Exists(dirs, files, sim.output_dir)
    /\ FilesUnder(sim.output_dir) = {} /\ DirsUnder(sim.output_dir) = {}

\* C15, as the specification states it: a simulate_dataset call whose
\* granularity is none of none, subject and session, here invalid_level
\* with a configuration that resolves and fill_files not passed, has raised
\* ValueError, and nothing is at or under the output directory.
C15_AsStated ==
    (Granularity(ZipInvalid) /\ sim.kw = Absent /\ Resolvable) =>
        /\ sim.pc = "raised" /\ sim.exc = "ValueError"
        /\ OutputUntouched
\* what the call does instead: it returns, with the tree made and its
\* .nii.gz files filled
C15_Divergence ==
    /\ Granularity(ZipInvalid) /\ sim.kw = Absent
    /\ sim.pc = "returned"
    /\ sim.output_dir \o <<DatasetDirName, DescFileName>> \in DOMAIN files
    /\ \E path \in FilesUnder(sim.output_dir) : FileSize(files[path]) = FillBytes

\* the archives of a scope: the files directly in the output directory
\* named <scope>_simbids-<version>.zip, for any version
ArchiveMark == <<"_", "s", "i", "m", "b", "i", "d", "s", "-">>
DotZip == <<".", "z", "i", "p">>
Archives(scope) ==
    {path \in DOMAIN files :
        /\ Len(path) = Len(sim.output_dir) + 1
        /\ IsPrefix(sim.output_dir, path)
        /\ StartsWith(path[Len(path)], scope \o ArchiveMark)
        /\ EndsWith(path[Len(path)], DotZip)}
\* the subject directories and the (subject, session) scopes of a tree
SubjectNames(tree) == {Prefixed(SubPrefix, Subjects(tree)[i][1]) : i \in 1..Len(Subjects(tree))}
SessionScopes(tree) ==
    {<<EntrySubject(Entries(tree)[k]), Prefixed(SesPrefix, Entries(tree)[k].session.s)>> :
        k \in {j \in 1..Len(Entries(tree)) : Entries(tree)[j].session # None}}
\* a simulate_dataset call with the given granularity has returned
Simulated(level) == Granularity(level) /\ sim.pc = "returned"

\* C16, as the specification states it: after a simulate_dataset call with
\* granularity subject, every subject of the skeleton has exactly one
\* archive <output_dir>/<subject>_simbids-<version>.zip.  (What the
\* archive holds is not stated here: there is no archive to look into.)
C16_AsStated ==
    Simulated(ZipSubject) =>
        \A subject \in SubjectNames(SkeletonTree) : Cardinality(Archives(subject)) = 1
\* what the call leaves instead: no archive of any subject, and every
\* subject's directory in the flat tree
C16_Divergence ==
    /\ Simulated(ZipSubject)
    /\ SubjectNames(SkeletonTree) # {}
    /\ \A subject \in SubjectNames(SkeletonTree) :
          Archives(subject) = {} /\ sim.dataset_dir \o <<subject>> \in dirs

\* C17, as the specification states it: after a simulate_dataset call with
\* granularity session, every (subject, session) pair of the skeleton has
\* exactly one archive <output_dir>/<subject>_<session>_simbids-<version>.zip.
C17_AsStated ==
    Simulated(ZipSession) =>
        \A scope \in SessionScopes(SkeletonTree) :
            Cardinality(Archives(scope[1] \o <<"_">> \o scope[2])) = 1
\* what the call leaves instead: no archive of any pair, and every
\* session's directory in the flat tree
C17_Divergence ==
    /\ Simulated(ZipSession)
    /\ SessionScopes(SkeletonTree) # {}
    /\ \A scope \in SessionScopes(SkeletonTree) :
          /\ Archives(scope[1] \o <<"_">> \o scope[2]) = {}
          /\ sim.dataset_dir \o <<scope[1], scope[2]>> \in dirs

\* C18, as the specification states it: after a simulate_dataset call with
\* granularity subject no subject's directory remains under
\* <output_dir>/simbids, and after one with granularity session
\* <output_dir>/simbids itself is gone.
C18_AsStated ==
    /\ Simulated(ZipSubject) =>
          \A subject \in SubjectNames(SkeletonTree) :
              ~Exists(dirs, files, sim.dataset_dir \o <<subject>>)
    /\ Simulated(ZipSession) =>
          /\ ~Exists(dirs, files, sim.dataset_dir)
          /\ FilesUnder(sim.dataset_dir) = {} /\ DirsUnder(sim.dataset_dir) = {}
\* what the call with granularity session leaves instead: the flat tree,
\* with the data file of every entry
C18_Divergence ==
    /\ Simulated(ZipSession)
    /\ Entries(SkeletonTree) # <<>>
    /\ \A k \in 1..Len(Entries(SkeletonTree)) :
          sim.dataset_dir \o EntryDirectory(Entries(SkeletonTree)[k])
            \o <<EntryStem(Entries(SkeletonTree)[k]) \o EntryExtension(Entries(SkeletonTree)[k])>>
              \in DOMAIN files

\* <output_dir>/simbids, and the path of an entry's data file below it
SimbidsDir == sim.output_dir \o <<<<"s", "i", "m", "b", "i", "d", "s">>>>
FlatDataFile(e) == SimbidsDir \o EntryDirectory(e) \o <<EntryStem(e) \o EntryExtension(e)>>
IsZip(path) == EndsWith(path[Len(path)], DotZip)

Produced == {path \in FilesUnder(SimbidsDir) : EndsWith(path[Len(path)], NiiGz)}
\* the caller asked for filled files
FillRequested == sim.kw = PyBool(TRUE)

\* C20, as the specification states it: after a simulate_dataset call that
\* returned, whatever its granularity, every .nii.gz file it produced has
\* 0 bytes when fill_files was not asked for.
C20_AsStated ==
    (sim.pc = "returned" /\ ~FillRequested) => \A path \in Produced : FileSize(files[path]) = 0
\* what a call with granularity none and fill_files left false does
\* instead: every .nii.gz file has 10 * 1024 * 1024 bytes
C20_Divergence ==
    /\ Simulated(ZipNone) /\ sim.kw = Absent
    /\ Produced # {}
    /\ \A path \in Produced : FileSize(files[path]) = 10485760
\* without a granularity argument the sizes follow fill_files
C20_WithoutGranularity ==
    (sim.pc = "returned" /\ sim.third = Absent) =>
        \A path \in Produced : FileSize(files[path]) = IF FillRequested THEN 10485760 ELSE 0
\* with a granularity argument, asking for filled files ends the call
\* before it starts
C20_BothArguments ==
    (sim.pc # "idle" /\ sim.third # Absent /\ sim.kw # Absent) =>
        sim.pc = "raised" /\ sim.exc = "TypeError" /\ trace = <<>>

\* the step in which a simulate_dataset call fills and returns
FillStep == sim.pc = "materialize" /\ sim'.pc = "filled"

\* C21: the fill step of simulate_dataset creates and removes nothing, and
\* leaves the content of every file whose name does not end in .nii.gz as
\* it was after materialization; so the placeholders with other
\* extensions, empty before, are empty after.
C21_FillTouchesOnlyNiiGz ==
    [][FillStep =>
          /\ DOMAIN files' = DOMAIN files
          /\ dirs' = dirs
          /\ \A path \in DOMAIN files :
                ~EndsWith(path[Len(path)], NiiGz) => files'[path] = files[path]]_vars
\* a call that filled has returned: a .nii.gz file is filled, and next to
\* it are an empty placeholder with another extension and a sidecar
C21_Witness ==
    /\ sim.pc = "returned" /\ Truthy(sim.fill_files)
    /\ \E path \in Produced : FileSize(files[path]) = 10485760
    /\ \E path \in FilesUnder(SimbidsDir) : EndsWith(path[Len(path)], Bval) /\ files[path] = <<>>
    /\ \E path \in FilesUnder(SimbidsDir) : EndsWith(path[Len(path)], DotJson) /\ files[path] # <<>>

\* the tree under a root: its directories and its files with their text,
\* by their paths relative to the root
Below(root, path) == SubSeq(path, Len(root) + 1, Len(path))
TreeUnder(root) ==
    [dirs |-> {Below(root, path) : path \in DirsUnder(root)},
     files |-> {<<Below(root, path), files[path]>> : path \in FilesUnder(root)}]

\* C22: when a call of generate_bids_skeleton has made its target and
\* ended, returning or raising, every other target an earlier call made,
\* with the same argument, holds the same tree: the same relative
\* directories, the same relative file paths, the same text in every file.
C22_Deterministic ==
    (sim.pc = "idle" /\ frame.pc \in {"returned", "raised"} /\ trace # <<>>) =>
        \A target \in Targets :
            target \in dirs => TreeUnder(target) = TreeUnder(frame.target_path)
\* two calls with the same mapping have returned on two targets, and the
\* tree has a described dataset, files with entities and sidecars
C22_Witness ==
    /\ IsRef(bids_config) /\ frame.pc = "returned"
    /\ \E target \in Targets : target # frame.target_path /\ target \in dirs
    /\ TreeHas(SkeletonTree, KeyDatasetDescription)
    /\ TreeGet(SkeletonTree, KeyDatasetDescription, None) # None
    /\ \E k \in 1..Len(Entries(SkeletonTree)) :
          /\ Without(Entries(SkeletonTree)[k].entry.items, Reserved) # <<>>
          /\ Metadata(Entries(SkeletonTree)[k]) # None
          /\ Sidecar(Entries(SkeletonTree)[k]) \in DOMAIN files

\* C23: the operations of a call come subject by subject in the order of
\* the skeleton's items: every operation on a subject is under the
\* directory of the subject the loop is at, no operation on an earlier
\* subject follows one on a later subject, and the data files are created
\* in the order of the entries, which within a subject is the order of its
\* session list.  A wildcard subject that is done has the operations of
\* the subject just before it, whatever the subjects before that one did.
C23_Order ==
    LET subjects == Subjects(SkeletonTree)
        entries == Entries(SkeletonTree)
    IN /\ \A k \in 1..Len(trace) :
            trace[k].subject > 0 =>
                /\ trace[k].subject <= Len(subjects)
                /\ trace[k].path[Len(frame.target_path) + 1]
                     = Prefixed(SubPrefix, subjects[trace[k].subject][1])
       /\ \A k, l \in 1..Len(trace) : k < l => trace[k].subject <= trace[l].subject
       /\ Len(Touched) <= Len(entries)
       /\ \A k \in 1..Len(Touched) :
            /\ Touched[k].path = DataFile(entries[k])
            /\ Touched[k].subject = entries[k].subject
       /\ \A i \in 2..Len(subjects) :
            (IsStar(subjects[i][2]) /\ frame.subject > i) =>
                RelativeOps(subjects, i) = RelativeOps(subjects, i - 1)
\* a call has returned on two subjects that differ followed by a wildcard
\* subject, the second of them with two sessions or two files
C23_Witness ==
    LET subjects == Subjects(SkeletonTree)
    IN /\ frame.pc = "returned"
       /\ Len(subjects) = 3
       /\ IsStar(subjects[3][2])
       /\ RelativeOps(subjects, 1) # RelativeOps(subjects, 2)
       /\ Len(SelectSeq(SubjectOps(3), LAMBDA o : o.op = "touch")) > 1

(***************************************************************************)
(* collect_derivatives.  The queries a call makes, in order, each with its *)
(* kind, and the files each matches.                                       *)
(***************************************************************************)
Tagged(kind, queries) == AsSeq([i \in 1..Len(queries) |-> [kind |-> kind, k |-> queries[i][1], suffix |-> queries[i][2]]])
Queries ==
    IF util.derivatives_dataset # None
    THEN Tagged("derivatives", CollectSpec.derivatives) \o Tagged("transforms", CollectSpec.transforms)
    ELSE IF util.raw_dataset # None THEN Tagged("raw", CollectSpec.raw)
    ELSE <<>>
Matched(q) ==
    IF q.kind = "raw" THEN LayoutGet(util.raw_dataset, EntityQuery(util.session, q.suffix))
    ELSE Find(util.derivatives_dataset, q.k, util.session, q.suffix)
IsAnat(q) == StartsWith(q.k, AnatPrefix)
MatchNames(q) == AsSeq([i \in 1..Len(Matched(q)) |-> Matched(q)[i].name])
MatchSessions(q) == {Matched(q)[i].session : i \in 1..Len(Matched(q))}
Collecting == util.op = "collect_derivatives"

Remains(n) ==
    IF trace[n].op = "mkdir" THEN trace[n].path \in dirs
    ELSE /\ trace[n].path \in DOMAIN files
         /\ (trace[n].op = "write" /\ \A later \in (n + 1)..Len(trace) : trace[later].path # trace[n].path)
               => files[trace[n].path] = trace[n].text
\* a call of generate_bids_skeleton has raised after it made its target
FailedAfterCreating == sim.pc = "idle" /\ frame.pc = "raised" /\ trace # <<>>

\* C25: when a call of generate_bids_skeleton has raised after making its
\* target, everything it made before is on disk: the target, its
\* dataset_description.json, and every directory, data file and sidecar
\* made for the subjects up to the failing one; the failing step removes
\* nothing; and a next call on the same target raises FileExistsError and
\* leaves every directory and file as it was.
C25_NotRolledBack ==
    /\ [](FailedAfterCreating =>
            /\ frame.target_path \in dirs
            /\ frame.target_path \o <<DescFileName>> \in DOMAIN files
            /\ \A n \in 1..Len(trace) : Remains(n))
    /\ [][(frame.pc # "raised" /\ frame'.pc = "raised" /\ calls' = calls)
            => /\ dirs \subseteq dirs'
               /\ \A path \in DOMAIN files : path \in DOMAIN files' /\ files'[path] = files[path]]_vars
    /\ [][(FailedAfterCreating /\ calls' = calls + 1 /\ frame'.target_path = frame.target_path)
            => /\ outcome' = Raised("FileExistsError")
               /\ dirs' = dirs
               /\ files' = files]_vars
\* a second call has been refused on the target that a call on a skeleton
\* with an entry without suffix left behind, with the data file made
\* before the failing entry in it
C25_Witness ==
    /\ calls = 2 /\ sim.pc = "idle"
    /\ outcome = Raised("FileExistsError")
    /\ IsRef(bids_config)
    /\ \E k \in 1..Len(Entries(SkeletonTree)) : ~TreeHas(Entries(SkeletonTree)[k].entry, KeySuffix)
    /\ \E path \in FilesUnder(frame.target_path) : path # frame.target_path \o <<DescFileName>>

\* steps of a simulate_dataset call, told by what they do: one that makes a
\* file or directory of the tree, one that writes random bytes, one that
\* calls datalad, and one that starts a call
Materializes == sim'.pc # "idle" /\ Len(trace') > 0 /\ trace' # trace
Fills == \E path \in DOMAIN files' : FileSize(files'[path]) = FillBytes /\ files'[path] # files[path]
Registers == Len(sim'.datalad) > Len(sim.datalad)
Starts == calls' = calls + 1

C26_WitnessFailed ==
    /\ sim.pc = "raised" /\ sim.datalad_init /\ Truthy(sim.fill_files)
    /\ outcome.kind = "raised" /\ sim.exc = outcome.exc

Updating == util.op = "update_dict"

\* C27, as the specification states it: at every point of an update_dict
\* call, and after it, orig_dict is equal at every nesting level to what
\* it was before the call.
C27_AsStated == Updating => Deref(heap, util.orig_dict) = util.before
\* what the call does instead: it has returned, and a mapping value of
\* orig_dict has the items of new_dict's value merged into it, as the
\* returned dictionary has
C27_Divergence ==
    /\ Updating /\ util.pc = "returned"
    /\ Deref(heap, util.orig_dict) # util.before
    /\ Deref(heap, util.orig_dict) = Deref(heap, util.updated_dict)
\* the part that holds: the returned dictionary is a new object, and
\* orig_dict keeps its keys and every value that is no mapping
C27_TopLevel ==
    (Updating /\ util.pc # "called") =>
        /\ util.updated_dict # util.orig_dict
        /\ Len(heap[util.orig_dict.r].ks) = Len(util.before.items)
        /\ \A i \in 1..Len(util.before.items) :
              /\ heap[util.orig_dict.r].ks[i] = util.before.items[i][1]
              /\ util.before.items[i][2].t # "dict"
                    => Deref(heap, heap[util.orig_dict.r].vs[i]) = util.before.items[i][2]

\* the directories at a depth below the target path
DirsAt(depth) == {path \in DirsUnder(frame.target_path) : Len(path) = Len(frame.target_path) + depth}
\* two subjects of different keys that have one directory name
SameSubject(subjects, i, j) ==
    /\ i < j /\ subjects[i][1] # subjects[j][1]
    /\ Prefixed(SubPrefix, subjects[i][1]) = Prefixed(SubPrefix, subjects[j][1])
\* the sessions named in a session list, in order
SessionsNamed(value) ==
    IF value.t # "list" THEN <<>>
    ELSE SelectSeq(AsSeq([j \in 1..Len(value.elems) |-> TreeGet(value.elems[j], KeySession, None)]),
                   LAMBDA name : name # None)

\* C28: everything a call makes for a subject is under <target>/<key>
\* with sub- added when absent, whatever was made there for an earlier
\* subject; after the target is made the call never raises
\* FileExistsError; and after a call that returned, the subject
\* directories under the target are one for each such name, and the
\* session directories one for each subject with each such session name,
\* so they are fewer than the keys when two keys differ only in the
\* prefix.
C28_MergedDirectories ==
    LET subjects == Subjects(SkeletonTree)
    IN (sim.pc = "idle" /\ trace # <<>>) =>
        /\ \A n \in 1..Len(trace) :
              trace[n].subject > 0 =>
                  IsPrefix(frame.target_path \o <<Prefixed(SubPrefix, subjects[trace[n].subject][1])>>,
                           trace[n].path)
        /\ frame.pc = "raised" => outcome.exc # "FileExistsError"
        /\ frame.pc = "returned" =>
              /\ DirsAt(1) = {frame.target_path \o <<name>> : name \in SubjectNames(SkeletonTree)}
              /\ {path \in DirsAt(2) : StartsWith(path[Len(path)], SesPrefix)}
                    = {frame.target_path \o <<scope[1], scope[2]>> : scope \in SessionScopes(SkeletonTree)}
              /\ Cardinality(DirsAt(1)) <= Len(subjects)
              /\ (\E i, j \in 1..Len(subjects) : SameSubject(subjects, i, j))
                    => Cardinality(DirsAt(1)) < Len(subjects)
\* a call has returned on a skeleton with the keys sub-01 and 01, each
\* with files of its own: one subject directory holds the files of both
C28_Witness ==
    /\ sim.pc = "idle" /\ frame.pc = "returned"
    /\ \E i, j \in 1..Len(Subjects(SkeletonTree)) :
          /\ SameSubject(Subjects(SkeletonTree), i, j)
          /\ {SubjectOps(i)[k].path : k \in 1..Len(SubjectOps(i))}
                # {SubjectOps(j)[k].path : k \in 1..Len(SubjectOps(j))}
          /\ \E k \in 1..Len(SubjectOps(j)) : SubjectOps(j)[k].op = "touch"
    /\ Cardinality(DirsAt(1)) = 1
\* a call has returned on a subject with the sessions 01 and ses-01: one
\* session directory holds the modalities of both
C28_WitnessSessions ==
    /\ sim.pc = "idle" /\ frame.pc = "returned"
    /\ \E i \in 1..Len(Subjects(SkeletonTree)) :
          /\ Len(SessionsNamed(Subjects(SkeletonTree)[i][2])) = 2
          /\ Cardinality({path \in DirsAt(2) : StartsWith(path[Len(path)], SesPrefix)}) = 1
    /\ Cardinality(DirsAt(3)) = 2

\* a string occurs in another
Occurs(s, old) == \E i \in 1..(Len(s) - Len(old) + 1) : SubSeq(s, i, i + Len(old) - 1) = old
\* the entry whose files the n-th operation of the call makes: the entry
\* of the last data file created up to it
EntryOf(n) == Entries(SkeletonTree)[Len(SelectSeq(SubSeq(trace, 1, n), LAMBDA o : o.op = "touch"))]
\* the name of an entry's data file with the extension at its end replaced
TrailingOnly(e) == frame.target_path \o EntryDirectory(e) \o <<EntryStem(e) \o DotJson>>

\* C29: every sidecar a call writes follows the creation of the data file
\* of an entry with metadata, holds that metadata, and is named by the data
\* file's name with every occurrence of the entry's extension replaced by
\* .json; when the extension occurs before the end of the name too, that
\* is not the name with only the trailing extension replaced; and when the
\* extension is .json, the sidecar is the data file: the entry has one
\* file, and it holds metadata, not nothing.
C29_SidecarName ==
    sim.pc = "idle" =>
        \A n \in 1..Len(trace) :
            (trace[n].op = "write" /\ trace[n].subject > 0) =>
                /\ trace[n - 1].op = "touch"
                /\ trace[n - 1].path = DataFile(EntryOf(n))
                /\ Metadata(EntryOf(n)) # None
                /\ trace[n].text = JsonDumps(Metadata(EntryOf(n)))
                /\ trace[n].path = Sidecar(EntryOf(n))
                /\ Occurs(EntryStem(EntryOf(n)), EntryExtension(EntryOf(n)))
                      => trace[n].path # TrailingOnly(EntryOf(n))
                /\ EntryExtension(EntryOf(n)) = DotJson =>
                      /\ trace[n].path = trace[n - 1].path
                      /\ files[DataFile(EntryOf(n))] # <<>>
                      /\ \E j \in 1..Len(Entries(SkeletonTree)) :
                            files[DataFile(EntryOf(n))] = JsonDumps(Metadata(Entries(SkeletonTree)[j]))
\* a call has returned that made an entry with metadata and extension
\* .json, whose only file holds the metadata, and an entry whose extension
\* occurs twice in its data file's name, with its sidecar
C29_Witness ==
    /\ sim.pc = "idle" /\ frame.pc = "returned"
    /\ \E n \in 2..Len(trace) :
          /\ trace[n].op = "write" /\ trace[n].path = trace[n - 1].path
          /\ files[trace[n].path] = trace[n].text
    /\ \E n \in 2..Len(trace) :
          /\ trace[n].op = "write" /\ trace[n].subject > 0
          /\ Occurs(EntryStem(EntryOf(n)), EntryExtension(EntryOf(n)))
          /\ trace[n].path \in DOMAIN files
          /\ TrailingOnly(EntryOf(n)) \notin DOMAIN files

\* the subject whose value a subject has: itself, or for "*" the nearest
\* subject before it that is not "*" (0 when there is none)
Origin(subjects, i) ==
    IF \E k \in 1..i : ~IsStar(subjects[k][2])
    THEN CHOOSE k \in 1..i : ~IsStar(subjects[k][2]) /\ \A j \in (k + 1)..i : IsStar(subjects[j][2])
    ELSE 0
\* a subject that is, or as "*" repeats, a single mapping with a session key
KeyedSingle(subjects, i) ==
    /\ Origin(subjects, i) > 0
    /\ subjects[Origin(subjects, i)][2].t = "dict"
    /\ TreeHas(subjects[Origin(subjects, i)][2], KeySession)
\* where the files of such a subject's entries are
SessionLess(subjects, i) ==
    LET value == subjects[Origin(subjects, i)][2]
        sub == Prefixed(SubPrefix, subjects[i][1])
        modalities == Without(value.items, {KeySession})
    IN UNION {{frame.target_path
                 \o <<sub, modalities[m][1],
                      sub \o combine_entities(Without(FileEntries(modalities[m][2])[f].items, Reserved))
                          \o <<"_">> \o Str(TreeGet(FileEntries(modalities[m][2])[f], KeySuffix, None))
                          \o Str(TreeGet(FileEntries(modalities[m][2])[f], KeyExtension, PyStr(NiiGz)))>> :
                 f \in 1..Len(FileEntries(modalities[m][2]))} : m \in 1..Len(modalities)}

\* C30: for a subject whose value is a single mapping with a session key,
\* and for every "*" subject that repeats it, the call makes no directory
\* but the subject's and its modalities', none named as a session; every
\* file it makes is <target>/<subject>/<modality>/<name> with the name
\* starting with <subject> and no session after it; and once the call is
\* past the subject, the data files of its entries are at those paths.
C30_SessionKeyOverwritten ==
    LET subjects == Subjects(SkeletonTree)
    IN sim.pc = "idle" =>
        \A i \in 1..Len(subjects) :
            KeyedSingle(subjects, i) =>
                LET sub == Prefixed(SubPrefix, subjects[i][1])
                IN /\ \A k \in 1..Len(SubjectOps(i)) :
                        LET o == SubjectOps(i)[k]
                        IN /\ \A c \in (Len(frame.target_path) + 1)..Len(o.path) :
                                ~StartsWith(o.path[c], SesPrefix)
                           /\ IsPrefix(frame.target_path \o <<sub>>, o.path)
                           /\ IF o.op = "mkdir" THEN Len(o.path) <= Len(frame.target_path) + 2
                              ELSE /\ Len(o.path) = Len(frame.target_path) + 3
                                   /\ StartsWith(o.path[Len(o.path)], sub)
                                   /\ ~StartsWith(o.path[Len(o.path)], sub \o <<"_">> \o SesPrefix)
                   /\ (frame.pc = "returned" \/ (frame.pc # "raised" /\ frame.subject > i)) =>
                         /\ SessionLess(subjects, i) \subseteq DOMAIN files
                         /\ {o.path : o \in {SubjectOps(i)[k] : k \in {j \in 1..Len(SubjectOps(i)) :
                                                                        SubjectOps(i)[j].op = "touch"}}}
                               = SessionLess(subjects, i)
\* a call has returned on a single mapping with a session key followed by
\* a "*" subject, with a data file made for each
C30_Witness ==
    /\ sim.pc = "idle" /\ frame.pc = "returned"
    /\ \E i \in 2..Len(Subjects(SkeletonTree)) :
          /\ IsStar(Subjects(SkeletonTree)[i][2])
          /\ KeyedSingle(Subjects(SkeletonTree), i)
          /\ TreeGet(Subjects(SkeletonTree)[i - 1][2], KeySession, None) # None
          /\ \E k \in 1..Len(SubjectOps(i)) : SubjectOps(i)[k].op = "touch"
          /\ \E k \in 1..Len(SubjectOps(i - 1)) : SubjectOps(i - 1)[k].op = "touch"
====
